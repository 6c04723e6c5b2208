------------------------------- MODULE TabProofs -------------------------------
(* What is proved of a tab, for all names, directories and sizes of a pane *)
(* or a back stack:                                                        *)
(*                                                                         *)
(*   StackStands       the back stack stands where the tab is;             *)
(*   TheCursorFollows  the cursor stays with its file and in view;         *)
(*   TabTypeCorrect    the types, among them that no count of the          *)
(*                     selection falls below zero;                         *)
(*   SelectionStands   no directory is selected with a file in it, and     *)
(*                     what is selected in Home is listed there;           *)
(*   ListingInSync     the listing is in line with the disk, whatever the  *)
(*                     order of changes, reports and readings.             *)
(*                                                                         *)
(* Sequences are picked from and sorted by ranks, so the proofs start with *)
(* facts about how many elements of a finite set come before another.      *)
EXTENDS Tab, FiniteSetTheorems, WellFoundedInduction, TLAPS

(* How many of P come before i. *)
Preceding(P, R, i) == Cardinality({j \in P : <<j, i>> \in R})

(* Each place of a strict order on finitely many is that of one of them.   *)
LEMMA Ranks ==
  ASSUME NEW P, IsFiniteSet(P), NEW R,
         \A i \in P : <<i, i>> \notin R,
         \A i, j \in P : i # j => <<i, j>> \in R \/ <<j, i>> \in R,
         \A i, j, k \in P : <<i, j>> \in R /\ <<j, k>> \in R => <<i, k>> \in R
  PROVE  /\ \A i \in P : Preceding(P, R, i) \in 0..Cardinality(P)-1
         /\ \A i, j \in P : <<i, j>> \in R => Preceding(P, R, i) < Preceding(P, R, j)
         /\ \A n \in 0..Cardinality(P)-1 : \E i \in P : Preceding(P, R, i) = n
<1> DEFINE Below(i) == {j \in P : <<j, i>> \in R}
           rank == [i \in P |-> Cardinality(Below(i))]
           m == Cardinality(P)
           image == {rank[i] : i \in P}
<1>1. m \in Nat
  BY FS_CardinalityType
<1>2. \A i \in P : IsFiniteSet(Below(i)) /\ Cardinality(Below(i)) \in Nat /\ Cardinality(Below(i)) < m
  <2> SUFFICES ASSUME NEW i \in P
               PROVE  IsFiniteSet(Below(i)) /\ Cardinality(Below(i)) \in Nat /\ Cardinality(Below(i)) < m
    OBVIOUS
  <2>1. Below(i) \subseteq P /\ Below(i) # P
    OBVIOUS
  <2> HIDE DEF Below
  <2>2. IsFiniteSet(Below(i)) /\ Cardinality(Below(i)) <= m /\ (Cardinality(Below(i)) = m => Below(i) = P)
    BY <2>1, FS_Subset
  <2>3. Cardinality(Below(i)) \in Nat
    BY <2>2, FS_CardinalityType
  <2> QED
    BY <1>1, <2>1, <2>2, <2>3
<1>3. \A i, j \in P : <<i, j>> \in R => Cardinality(Below(i)) < Cardinality(Below(j))
  <2> SUFFICES ASSUME NEW i \in P, NEW j \in P, <<i, j>> \in R
               PROVE  Cardinality(Below(i)) < Cardinality(Below(j))
    OBVIOUS
  <2>1. Below(i) \subseteq Below(j) /\ i \in Below(j) /\ i \notin Below(i)
    OBVIOUS
  <2>2. IsFiniteSet(Below(j)) /\ Cardinality(Below(i)) \in Nat /\ Cardinality(Below(j)) \in Nat
    BY <1>2
  <2> HIDE DEF Below
  <2>3. Cardinality(Below(i)) <= Cardinality(Below(j)) /\ (Cardinality(Below(i)) = Cardinality(Below(j)) => Below(i) = Below(j))
    BY <2>1, <2>2, FS_Subset
  <2> QED
    BY <2>1, <2>2, <2>3
<1>4. \A i \in P : rank[i] \in 0..m-1
  <2> HIDE DEF Below, m
  <2> QED
    BY <1>1, <1>2
<1>5. \A i, j \in P : rank[i] = rank[j] => i = j
  <2> SUFFICES ASSUME NEW i \in P, NEW j \in P, rank[i] = rank[j], i # j PROVE FALSE
    OBVIOUS
  <2>1. <<i, j>> \in R \/ <<j, i>> \in R
    OBVIOUS
  <2>2. Cardinality(Below(i)) = Cardinality(Below(j))
    OBVIOUS
  <2> HIDE DEF Below, rank
  <2>3. Cardinality(Below(i)) \in Nat
    BY <1>2
  <2> QED
    BY <2>1, <2>2, <2>3, <1>3
<1>6. IsFiniteSet(0..m-1) /\ Cardinality(0..m-1) = m
  <2>1. m - 1 \in Int /\ 0 \in Int /\ m - 1 - 0 + 1 = m /\ (0 > m - 1 => m = 0)
    BY <1>1
  <2> HIDE DEF m
  <2> QED
    BY <2>1, FS_Interval
<1>7. Cardinality(image) = m
  <2>1. rank \in Bijection(P, image)
    <3> HIDE DEF m, Below
    <3> QED
      BY <1>5 DEF Bijection, Injection, Surjection, IsInjective
  <2> HIDE DEF rank, image
  <2> QED
    BY <2>1, FS_Bijection DEF ExistsBijection
<1>8. image = 0..m-1
  <2> HIDE DEF image, m
  <2>1. image \subseteq 0..m-1
    BY <1>4, ZenonT(60) DEF image
  <2> QED
    BY <2>1, <1>6, <1>7, FS_Subset
<1>9. \A n \in 0..m-1 : \E i \in P : rank[i] = n
  <2> HIDE DEF m, Below
  <2> QED
    BY <1>8
<1>10. \A i \in P : rank[i] = Cardinality(Below(i))
  OBVIOUS
<1> HIDE DEF rank, m
<1>11. /\ \A i \in P : Cardinality(Below(i)) \in 0..m-1
       /\ \A i, j \in P : <<i, j>> \in R => Cardinality(Below(i)) < Cardinality(Below(j))
       /\ \A n \in 0..m-1 : \E i \in P : Cardinality(Below(i)) = n
  BY <1>3, <1>4, <1>9, <1>10
<1>12. \A i : Preceding(P, R, i) = Cardinality(Below(i))
  BY DEF Preceding
<1> HIDE DEF Below
<1> QED
  BY <1>11, <1>12 DEF m

-----------------------------------------------------------------------------
(* Picking from a sequence. *)

(* How many of P are below i. *)
Rank(P, i) == Cardinality({j \in P : j < i})

(* The ranks of finitely many numbers are the numbers from 0. *)
LEMMA RankFacts ==
  ASSUME NEW n \in Nat, NEW P \in SUBSET (1..n)
  PROVE  /\ IsFiniteSet(P) /\ Cardinality(P) \in 0..n
         /\ \A i \in P : Rank(P, i) \in 0..Cardinality(P)-1
         /\ \A i, j \in P : i < j => Rank(P, i) < Rank(P, j)
         /\ \A k \in 0..Cardinality(P)-1 : \E i \in P : Rank(P, i) = k
<1> DEFINE R == {p \in P \X P : p[1] < p[2]}
           Below(i) == {j \in P : <<j, i>> \in R}
<1>1. IsFiniteSet(1..n) /\ Cardinality(1..n) = n
  BY FS_Interval
<1>2. IsFiniteSet(P) /\ Cardinality(P) \in 0..n
  <2>1. IsFiniteSet(P) /\ Cardinality(P) <= n
    BY <1>1, FS_Subset
  <2>2. Cardinality(P) \in Nat
    BY <2>1, FS_CardinalityType
  <2> QED
    BY <2>1, <2>2
<1>3. \A i, j \in P : <<i, j>> \in R <=> i < j
  OBVIOUS
<1>4. \A i \in P : {j \in P : j < i} = Below(i)
  OBVIOUS
<1>5. \A i \in P : Rank(P, i) = Preceding(P, R, i)
  BY <1>4 DEF Rank, Preceding
<1>6. /\ \A i \in P : <<i, i>> \notin R
      /\ \A i, j \in P : i # j => <<i, j>> \in R \/ <<j, i>> \in R
      /\ \A i, j, k \in P : <<i, j>> \in R /\ <<j, k>> \in R => <<i, k>> \in R
  <2> \A i \in P : i \in Int
    OBVIOUS
  <2> HIDE DEF R
  <2> QED
    BY <1>3
<1> HIDE DEF R
<1>7. /\ \A i \in P : Preceding(P, R, i) \in 0..Cardinality(P)-1
      /\ \A i, j \in P : <<i, j>> \in R => Preceding(P, R, i) < Preceding(P, R, j)
      /\ \A k \in 0..Cardinality(P)-1 : \E i \in P : Preceding(P, R, i) = k
  BY <1>2, <1>6, Ranks
<1>8. \A i \in P : Rank(P, i) \in 0..Cardinality(P)-1
  BY <1>5, <1>7
<1>9. \A i, j \in P : i < j => Rank(P, i) < Rank(P, j)
  <2> SUFFICES ASSUME NEW i \in P, NEW j \in P, i < j PROVE Rank(P, i) < Rank(P, j)
    OBVIOUS
  <2>1. <<i, j>> \in R
    BY <1>3
  <2> QED
    BY <2>1, <1>5, <1>7
<1>10. \A k \in 0..Cardinality(P)-1 : \E i \in P : Rank(P, i) = k
  BY <1>5, <1>7
<1> QED
  BY <1>2, <1>8, <1>9, <1>10

(* Picking takes the elements at the places, and no others, in their *)
(* order. *)
LEMMA PickFacts ==
  ASSUME NEW S, NEW s \in Seq(S), NEW P \in SUBSET (1..Len(s))
  PROVE  /\ Pick(s, P) \in Seq(S) /\ Len(Pick(s, P)) = Cardinality(P)
         /\ Cardinality(P) \in 0..Len(s)
         /\ \A i \in P : Rank(P, i) + 1 \in 1..Cardinality(P) /\ Pick(s, P)[Rank(P, i) + 1] = s[i]
         /\ \A k \in 1..Cardinality(P) : \E i \in P : k = Rank(P, i) + 1
<1> DEFINE m == Cardinality(P)
           at(k) == CHOOSE i \in P : Cardinality({j \in P : j < i}) = k - 1
<1>1. Len(s) \in Nat
  OBVIOUS
<1>2. /\ m \in 0..Len(s)
      /\ \A i \in P : Rank(P, i) \in 0..m-1
      /\ \A i, j \in P : i < j => Rank(P, i) < Rank(P, j)
      /\ \A k \in 0..m-1 : \E i \in P : Rank(P, i) = k
  BY <1>1, RankFacts
<1>3. \A i \in P : i \in Int /\ i \in 1..Len(s) /\ s[i] \in S
  OBVIOUS
<1>4. \A k \in 1..m : at(k) = CHOOSE i \in P : Rank(P, i) = k - 1
  BY DEF Rank
<1> HIDE DEF m, at
<1>5. \A k \in 1..m : at(k) \in P /\ Rank(P, at(k)) = k - 1
  <2> SUFFICES ASSUME NEW k \in 1..m PROVE at(k) \in P /\ Rank(P, at(k)) = k - 1
    OBVIOUS
  <2>1. k - 1 \in 0..m-1
    BY <1>2
  <2>2. \E i \in P : Rank(P, i) = k - 1
    BY <1>2, <2>1
  <2> QED
    BY <1>4, <2>2
<1>6. Pick(s, P) = [k \in 1..m |-> s[at(k)]]
  BY DEF Pick, at, m
<1>7. Pick(s, P) \in Seq(S) /\ Len(Pick(s, P)) = m
  <2>1. \A k \in 1..m : s[at(k)] \in S
    BY <1>3, <1>5
  <2>2. m \in Nat
    BY <1>1, <1>2
  <2> QED
    BY <1>6, <2>1, <2>2
<1>8. \A i \in P : Rank(P, i) + 1 \in 1..m /\ Pick(s, P)[Rank(P, i) + 1] = s[i]
  <2> SUFFICES ASSUME NEW i \in P PROVE Rank(P, i) + 1 \in 1..m /\ Pick(s, P)[Rank(P, i) + 1] = s[i]
    OBVIOUS
  <2> DEFINE k == Rank(P, i) + 1
  <2>1. Rank(P, i) \in 0..m-1 /\ m \in Nat
    BY <1>1, <1>2
  <2>2. k \in 1..m /\ k - 1 = Rank(P, i)
    BY <2>1
  <2> HIDE DEF k
  <2>3. at(k) \in P /\ Rank(P, at(k)) = Rank(P, i)
    BY <1>5, <2>2
  <2>4. at(k) = i
    <3>1. at(k) \in Int /\ i \in Int
      BY <1>3, <2>3
    <3>2. ASSUME NEW j \in P, Rank(P, j) = Rank(P, i) PROVE ~(j < i) /\ ~(i < j)
      BY <1>2, <2>1, <3>2
    <3>3. ~(at(k) < i) /\ ~(i < at(k))
      BY <2>3, <3>2
    <3> QED
      BY <3>1, <3>3
  <2>5. Pick(s, P)[k] = s[i]
    BY <1>6, <2>2, <2>4
  <2> QED
    BY <2>2, <2>5 DEF k
<1>9. \A k \in 1..m : \E i \in P : k = Rank(P, i) + 1
  <2> SUFFICES ASSUME NEW k \in 1..m PROVE \E i \in P : k = Rank(P, i) + 1
    OBVIOUS
  <2>1. at(k) \in P /\ k = Rank(P, at(k)) + 1
    BY <1>2, <1>5
  <2> QED
    BY <2>1
<1> QED
  BY <1>2, <1>7, <1>8, <1>9 DEF m

(* A whole sequence is picked as it is. *)
LEMMA PickAll ==
  ASSUME NEW S, NEW s \in Seq(S)
  PROVE  Pick(s, 1..Len(s)) = s
<1> DEFINE P == 1..Len(s)
<1>1. Len(s) \in Nat /\ Cardinality(P) = Len(s)
  <2>1. Len(s) \in Nat
    OBVIOUS
  <2> QED
    BY <2>1, FS_Interval, SMTT(60)
<1>2. \A i \in P : Rank(P, i) = i - 1
  <2> SUFFICES ASSUME NEW i \in P PROVE Rank(P, i) = i - 1
    OBVIOUS
  <2>1. {j \in P : j < i} = 1..i-1
    BY <1>1
  <2>2. Cardinality(1..i-1) = i - 1
    <3>1. i - 1 \in Int /\ i - 1 >= 0
      BY <1>1
    <3> QED
      BY <3>1, FS_Interval
  <2> HIDE DEF P
  <2> QED
    BY <2>1, <2>2 DEF Rank
<1>3. /\ Pick(s, P) \in Seq(S) /\ Len(Pick(s, P)) = Len(s)
      /\ \A i \in P : Pick(s, P)[Rank(P, i) + 1] = s[i]
  BY <1>1, PickFacts
<1>4. \A i \in 1..Len(s) : Pick(s, P)[i] = s[i]
  BY <1>1, <1>2, <1>3
<1> QED
  <2> HIDE DEF P
  <2>1. Pick(s, P) = s
    BY <1>3, <1>4
  <2> QED
    BY <2>1 DEF P

-----------------------------------------------------------------------------
(* The back stack. *)

(* Some natural numbers have a least one, *)
LEMMA LeastNatural ==
  ASSUME NEW A \in SUBSET Nat, A # {}
  PROVE  \E m \in A : \A k \in A : m <= k
<1> DEFINE T == {0..k : k \in A}
<1>1. \A k \in Nat : 0..k \in FiniteSubsetsOf(Nat)
  <2> SUFFICES ASSUME NEW k \in Nat PROVE 0..k \in FiniteSubsetsOf(Nat)
    OBVIOUS
  <2>1. IsFiniteSet(0..k)
    BY FS_Interval
  <2>2. 0..k \subseteq Nat
    OBVIOUS
  <2> QED
    BY <2>1, <2>2 DEF FiniteSubsetsOf
<1>2. T \subseteq FiniteSubsetsOf(Nat) /\ T # {}
  BY <1>1
<1>3. IsWellFoundedOn(StrictSubsetOrdering(Nat), FiniteSubsetsOf(Nat))
  BY FS_StrictSubsetOrderingWellFounded
<1> HIDE DEF T
<1>4. PICK x \in T : \A y \in T : ~(<<y, x>> \in StrictSubsetOrdering(Nat))
  BY <1>2, <1>3, WFMin
<1>5. PICK m \in A : x = 0..m
  BY DEF T
<1>6. ASSUME NEW k \in A, k < m PROVE FALSE
  <2>1. 0..k \in T
    BY DEF T
  <2>2. 0..k \subseteq Nat /\ 0..m \subseteq Nat /\ 0..k \subseteq 0..m
    BY <1>6
  <2>3. m \in 0..m /\ m \notin 0..k
    BY <1>6
  <2>4. <<0..k, 0..m>> \in StrictSubsetOrdering(Nat)
    BY <2>2, <2>3 DEF StrictSubsetOrdering
  <2> QED
    BY <2>1, <2>4, <1>4, <1>5
<1> QED
  BY <1>6

(* and if they are bounded a greatest one. *)
LEMMA GreatestNatural ==
  ASSUME NEW n \in Nat, NEW A \in SUBSET (0..n), A # {}
  PROVE  \E m \in A : \A k \in A : k <= m
<1> DEFINE B == {b \in 0..n : n - b \in A}
<1>1. PICK a \in A : TRUE
  OBVIOUS
<1>2. n - a \in B /\ B \in SUBSET Nat
  BY <1>1
<1>3. PICK b \in B : \A k \in B : b <= k
  <2> HIDE DEF B
  <2> QED
    BY <1>2, LeastNatural
<1>4. ASSUME NEW k \in A PROVE k <= n - b
  <2>1. n - k \in B /\ k \in Int /\ b \in Int
    OBVIOUS
  <2>2. b <= n - k
    BY <1>3, <2>1
  <2> HIDE DEF B
  <2> QED
    BY <2>1, <2>2
<1> QED
  BY <1>3, <1>4

(* Places that each repeat the one before are all the same. *)
LEMMA SameAlong ==
  ASSUME NEW S, NEW s \in Seq(S), NEW a \in 1..Len(s), NEW b \in 1..Len(s), a <= b,
         \A i \in a+1..b : i \in Repeats(s)
  PROVE  s[b] = s[a]
<1> DEFINE A == {i \in a..b : s[i] # s[a]}
<1> SUFFICES ASSUME A # {} PROVE FALSE
  OBVIOUS
<1>1. Len(s) \in Nat
  OBVIOUS
<1>2. A \in SUBSET Nat
  BY <1>1
<1>3. PICK m \in A : \A k \in A : m <= k
  BY <1>2, LeastNatural
<1>4. m \in a+1..b /\ m - 1 \in a..b /\ m - 1 \notin A
  BY <1>1, <1>3
<1>5. s[m - 1] = s[a]
  BY <1>4
<1>6. s[m] = s[m - 1]
  BY <1>4 DEF Repeats
<1> QED
  BY <1>3, <1>5, <1>6

Counted(P, n) == Cardinality({i \in P : i <= n})

(* What is picked, and what is not, up to some place. *)
LEMMA RestCounted ==
  ASSUME NEW n \in Nat, NEW P \in SUBSET (1..n), NEW p \in 0..n
  PROVE  /\ Counted(P, p) \in 0..p /\ Counted((1..n) \ P, p) \in 0..p
         /\ Counted(P, p) = p - Counted((1..n) \ P, p)
<1> DEFINE A == {i \in P : i <= p}
           B == {i \in (1..n) \ P : i <= p}
<1>1. IsFiniteSet(1..p) /\ Cardinality(1..p) = p
  <2>1. p \in Int /\ p >= 0
    OBVIOUS
  <2> QED
    BY <2>1, FS_Interval
<1>2. A \subseteq 1..p /\ B \subseteq 1..p /\ A \cup B = 1..p /\ A \cap B = {}
  <2> \A i \in P : i \in 1..n
    OBVIOUS
  <2>1. A \subseteq 1..p /\ B \subseteq 1..p
    <3>1. \A i \in 1..n : i <= p => i \in 1..p
      OBVIOUS
    <3>2. \A i \in A : i \in 1..n /\ i <= p
      OBVIOUS
    <3>3. \A i \in B : i \in 1..n /\ i <= p
      OBVIOUS
    <3> QED
      BY <3>1, <3>2, <3>3
  <2>2. \A i \in 1..p : i \in 1..n /\ i <= p
    OBVIOUS
  <2>3. 1..p \subseteq A \cup B
    BY <2>2
  <2> QED
    BY <2>1, <2>3
<1> HIDE DEF A, B
<1>3. IsFiniteSet(A) /\ IsFiniteSet(B)
  BY <1>1, <1>2, FS_Subset
<1>4. Cardinality(A) \in Nat /\ Cardinality(B) \in Nat /\ Cardinality({}) = 0
  BY <1>3, FS_CardinalityType, FS_EmptySet
<1>5. Cardinality(1..p) = Cardinality(A) + Cardinality(B) - Cardinality(A \cap B)
  BY <1>2, <1>3, FS_Union
<1>6. p = Cardinality(A) + Cardinality(B)
  <2>1. Cardinality(1..p) = Cardinality(A) + Cardinality(B) - 0
    BY <1>2, <1>4, <1>5
  <2> QED
    BY <2>1, <1>1, <1>4
<1>7. Counted(P, p) = Cardinality(A) /\ Counted((1..n) \ P, p) = Cardinality(B)
  BY DEF Counted, A, B
<1> QED
  BY <1>4, <1>6, <1>7

(* The rank of the first number that is not smaller is how many are *)
(* smaller. *)
LEMMA CountedRank ==
  ASSUME NEW n \in Nat, NEW P \in SUBSET (1..n), NEW i \in P
  PROVE  Counted(P, i) = Rank(P, i) + 1
<1> DEFINE A == {j \in P : j < i}
           C == {j \in P : j <= i}
<1>1. C = A \cup {i} /\ i \notin A /\ A \subseteq 1..n
  <2>1. \A j \in P : j \in 1..n
    OBVIOUS
  <2>2. \A j \in P : j <= i <=> j < i \/ j = i
    BY <2>1
  <2>3. \A j : j \in C <=> j \in A \/ j = i
    <3>1. ASSUME NEW j \in C PROVE j \in A \/ j = i
      BY <2>2
    <3>2. ASSUME NEW j \in A PROVE j \in C
      BY <2>2
    <3>3. i \in C
      BY <2>2
    <3> HIDE DEF A, C
    <3> QED
      BY <3>1, <3>2, <3>3
  <2>4. C = A \cup {i}
    <3> HIDE DEF A, C
    <3> QED
      BY <2>3
  <2>5. i \notin A
    BY <2>1
  <2>6. A \subseteq 1..n
    BY <2>1
  <2> QED
    BY <2>4, <2>5, <2>6
<1>2. IsFiniteSet(1..n)
  BY FS_Interval
<1> HIDE DEF A, C
<1>3. IsFiniteSet(A)
  BY <1>1, <1>2, FS_Subset
<1>4. Cardinality(A \cup {i}) = Cardinality(A) + 1
  BY <1>1, <1>3, FS_AddElement
<1> QED
  BY <1>1, <1>4 DEF Counted, Rank, A, C

(* What repeats the one before is not the first. *)
LEMMA RepeatsPlaces ==
  ASSUME NEW S, NEW s \in Seq(S)
  PROVE  Repeats(s) \in SUBSET (1..Len(s))
<1> Len(s) \in Nat
  OBVIOUS
<1> QED
  BY DEF Repeats

(* Merging leaves no repeats. *)
LEMMA Merged ==
  ASSUME NEW S, NEW s \in Seq(S), NEW Q \in SUBSET (1..Len(s)),
         \A i \in 1..Len(s) : i \in Q <=> i \notin Repeats(s)
  PROVE  Repeats(Pick(s, Q)) = {}
<1> DEFINE r == Pick(s, Q)
<1>1. Len(s) \in Nat /\ Q \in SUBSET (1..Len(s))
  OBVIOUS
<1>2. /\ r \in Seq(S) /\ Len(r) = Cardinality(Q)
      /\ \A i \in Q : Rank(Q, i) + 1 \in 1..Cardinality(Q) /\ r[Rank(Q, i) + 1] = s[i]
      /\ \A k \in 1..Cardinality(Q) : \E i \in Q : k = Rank(Q, i) + 1
  BY <1>1, PickFacts
<1>3. \A i, j \in Q : i < j => Rank(Q, i) < Rank(Q, j)
  BY <1>1, RankFacts
<1> HIDE DEF r
<1> SUFFICES ASSUME NEW n \in 2..Len(r), r[n] = r[n - 1] PROVE FALSE
  BY DEF Repeats, r
<1>4. Len(r) \in Nat /\ n \in 1..Len(r) /\ n - 1 \in 1..Len(r)
  BY <1>2
<1>5. PICK b \in Q : n = Rank(Q, b) + 1
  BY <1>2, <1>4
<1>6. PICK a \in Q : n - 1 = Rank(Q, a) + 1
  BY <1>2, <1>4
<1>7. r[n] = s[b] /\ r[n - 1] = s[a]
  BY <1>2, <1>5, <1>6
<1>8. \A i \in Q : i \in 1..Len(s) /\ Rank(Q, i) \in Int
  <2>1. Cardinality(Q) \in Nat /\ \A i \in Q : Rank(Q, i) \in 0..Cardinality(Q)-1
    <3>1. Cardinality(Q) \in 0..Len(s) /\ \A i \in Q : Rank(Q, i) \in 0..Cardinality(Q)-1
      BY <1>1, RankFacts
    <3> QED
      BY <3>1, <1>1
  <2>2. \A i \in Q : Rank(Q, i) \in Int
    BY <2>1
  <2> QED
    BY <1>1, <2>2
<1>9. a < b
  <2>1. Rank(Q, a) < Rank(Q, b) /\ Rank(Q, a) # Rank(Q, b)
    <3> DEFINE x == Rank(Q, a)
               y == Rank(Q, b)
    <3>1. x \in Int /\ y \in Int /\ n = y + 1 /\ n - 1 = x + 1
      BY <1>5, <1>6, <1>8
    <3> HIDE DEF x, y
    <3>2. x < y /\ x # y
      BY <3>1
    <3> QED
      BY <3>2 DEF x, y
  <2>2. ~(b < a)
    BY <2>1, <1>3, <1>8
  <2> QED
    BY <2>1, <2>2, <1>8
<1>10. \A i \in a+1..b-1 : i \in Repeats(s)
  <2> SUFFICES ASSUME NEW i \in a+1..b-1, i \notin Repeats(s) PROVE FALSE
    OBVIOUS
  <2>0. i \in Q /\ a < i /\ i < b
    BY <1>1, <1>8
  <2>1. Rank(Q, a) < Rank(Q, i) /\ Rank(Q, i) < Rank(Q, b)
    BY <2>0, <1>3
  <2> QED
    BY <2>0, <2>1, <1>5, <1>6, <1>8
<1>11. a \in 1..Len(s) /\ b - 1 \in 1..Len(s) /\ a <= b - 1
  BY <1>8, <1>9
<1>12. s[b - 1] = s[a]
  BY <1>10, <1>11, SameAlong
<1>13. b \in 2..Len(s) /\ b \notin Repeats(s)
  BY <1>8, <1>9
<1> QED
  BY <1>7, <1>12, <1>13 DEF Repeats

(* The cursor stays with what it is on when the stack is merged. *)
LEMMA MergedHere ==
  ASSUME NEW S, NEW s \in Seq(S), NEW here \in 1..Len(s), NEW Q \in SUBSET (1..Len(s)),
         \A i \in 1..Len(s) : i \in Q <=> i \notin Repeats(s)
  PROVE  /\ here - Counted(Repeats(s), here) \in 1..Len(Pick(s, Q))
         /\ Pick(s, Q)[here - Counted(Repeats(s), here)] = s[here]
<1>1. Len(s) \in Nat /\ Q \in SUBSET (1..Len(s)) /\ (1..Len(s)) \ Q = Repeats(s) /\ here \in 0..Len(s)
  <2>1. Len(s) \in Nat /\ here \in 0..Len(s)
    OBVIOUS
  <2>2. Repeats(s) \in SUBSET (1..Len(s))
    BY RepeatsPlaces
  <2>3. (1..Len(s)) \ Q = Repeats(s)
    BY <2>2
  <2> QED
    BY <2>1, <2>3
<1> DEFINE A == {i \in Q : i <= here}
<1>2. 1 \in A /\ A \in SUBSET (0..Len(s))
  <2>1. 1 \in 1..Len(s) /\ 1 \notin Repeats(s) /\ 1 <= here
    BY <1>1 DEF Repeats
  <2>2. 1 \in Q
    BY <2>1
  <2>3. \A i \in Q : i \in 0..Len(s)
    BY <1>1
  <2> QED
    BY <2>1, <2>2, <2>3
<1>3. PICK q \in A : \A k \in A : k <= q
  <2> HIDE DEF A
  <2> QED
    BY <1>1, <1>2, GreatestNatural
<1>4. q \in Q /\ q \in 1..Len(s) /\ q <= here
  BY <1>1
<1>5. Counted(Q, here) = Counted(Q, q)
  <2>1. \A i \in Q : i <= here <=> i <= q
    <3> \A i \in Q : i \in 1..Len(s)
      BY <1>1
    <3>1. ASSUME NEW i \in Q, i <= here PROVE i <= q
      BY <1>3, <3>1
    <3>2. ASSUME NEW i \in Q, i <= q PROVE i <= here
      BY <1>4, <3>2
    <3> QED
      BY <3>1, <3>2
  <2>2. {i \in Q : i <= here} = {i \in Q : i <= q}
    BY <2>1
  <2> QED
    BY <2>2 DEF Counted
<1>6. Counted(Q, q) = Rank(Q, q) + 1
  BY <1>1, <1>4, CountedRank
<1>7. Counted(Q, here) = here - Counted(Repeats(s), here)
  BY <1>1, RestCounted
<1>8. /\ Len(Pick(s, Q)) = Cardinality(Q)
      /\ Rank(Q, q) + 1 \in 1..Cardinality(Q) /\ Pick(s, Q)[Rank(Q, q) + 1] = s[q]
  BY <1>1, <1>4, PickFacts
<1>9. s[here] = s[q]
  <2>1. \A i \in q+1..here : i \in Repeats(s)
    <3> SUFFICES ASSUME NEW i \in q+1..here, i \in Q PROVE FALSE
      BY <1>1, <1>4
    <3> i \in Int /\ i <= here /\ q < i
      BY <1>4
    <3> QED
      BY <1>3, <1>4
  <2> QED
    BY <2>1, <1>4, SameAlong
<1> QED
  BY <1>5, <1>6, <1>7, <1>8, <1>9

(* What a removal of directories makes of the stack (Backstack::remove_keys). *)
LEMMA Removed ==
  ASSUME NEW S, NEW s \in Seq(S), NEW p \in 1..Len(s), NEW keys
  PROVE  LET b == RemoveKeys(s, p, keys) IN
         /\ b.stack \in Seq(S) /\ b.pos \in Nat /\ Repeats(b.stack) = {}
         /\ b.stack # <<>> => b.pos \in 1..Len(b.stack)
         /\ s[p] \notin keys => b.pos \in 1..Len(b.stack) /\ b.stack[b.pos] = s[p]
<1> DEFINE n == Len(s)
           gone == {i \in 1..n : s[i] \in keys}
           stay == (1..n) \ gone
           kept == Pick(s, stay)
           old == p - Counted(gone, p - 1)
           here == Least(old, Len(kept))
           Q == (1..Len(kept)) \ Repeats(kept)
<1>1. n \in Nat /\ DOMAIN s = 1..n /\ p \in 1..n
  OBVIOUS
<1>2. gone \in SUBSET (1..n) /\ stay \in SUBSET (1..n) /\ (1..n) \ gone = stay
  OBVIOUS
<1>3. \A i \in 1..n : i \in stay <=> s[i] \notin keys
  OBVIOUS
<1>4. Cardinality({i \in 1..p-1 : s[i] \in keys}) = Counted(gone, p - 1)
  <2>1. \A i \in 1..n : i \in 1..p-1 <=> i <= p - 1
    BY <1>1
  <2>2. 1..p-1 \subseteq 1..n
    BY <1>1
  <2>3. {i \in 1..p-1 : s[i] \in keys} = {i \in gone : i <= p - 1}
    BY <2>1, <2>2
  <2> QED
    BY <2>3 DEF Counted
<1> HIDE DEF n, gone, stay
<1>5. /\ kept \in Seq(S) /\ Len(kept) = Cardinality(stay)
      /\ \A i \in stay : Rank(stay, i) + 1 \in 1..Cardinality(stay) /\ kept[Rank(stay, i) + 1] = s[i]
  BY <1>2, PickFacts DEF n
<1> HIDE DEF kept
<1>6. Len(kept) \in Nat /\ DOMAIN kept = 1..Len(kept)
  BY <1>5
<1>7. Counted(stay, p - 1) \in 0..p-1 /\ old = Counted(stay, p - 1) + 1
  <2>1. p - 1 \in 0..n
    BY <1>1
  <2>2. /\ Counted(gone, p - 1) \in 0..p-1 /\ Counted(stay, p - 1) \in 0..p-1
        /\ Counted(gone, p - 1) = p - 1 - Counted(stay, p - 1)
    BY <2>1, <1>1, <1>2, RestCounted
  <2> QED
    BY <2>2, <1>1
<1>8. RemoveKeys(s, p, keys) =
        [stack |-> Pick(kept, Q), pos |-> here - Counted(Repeats(kept), here)]
  <2>1. Without(s, {i \in DOMAIN s : s[i] \in keys}) = kept
    BY <1>1 DEF Without, kept, stay, gone
  <2>2. Without(kept, Repeats(kept)) = Pick(kept, Q)
    BY <1>6 DEF Without
  <2>3. p - Cardinality({i \in 1..p-1 : s[i] \in keys}) = old
    BY <1>4
  <2> HIDE DEF old, here, Q
  <2> QED
    BY <2>1, <2>2, <2>3 DEF RemoveKeys, Counted, here
<1>9. /\ Q \in SUBSET (1..Len(kept)) /\ \A i \in 1..Len(kept) : i \in Q <=> i \notin Repeats(kept)
  OBVIOUS
<1> HIDE DEF Q, old
<1>10. Pick(kept, Q) \in Seq(S) /\ Repeats(Pick(kept, Q)) = {}
  BY <1>5, <1>9, PickFacts, Merged
<1>11. kept # <<>> => here \in 1..Len(kept)
  <2>1. kept # <<>> => Len(kept) >= 1
    BY <1>5, <1>6
  <2> QED
    BY <1>6, <1>7, <2>1 DEF Least
<1>12. kept # <<>> =>
         /\ here - Counted(Repeats(kept), here) \in 1..Len(Pick(kept, Q))
         /\ Pick(kept, Q)[here - Counted(Repeats(kept), here)] = kept[here]
  <2> HIDE DEF here
  <2> QED
    BY <1>5, <1>9, <1>11, MergedHere
<1>13. kept = <<>> => Pick(kept, Q) = <<>> /\ here - Counted(Repeats(kept), here) = 0
  <2> SUFFICES ASSUME kept = <<>>
               PROVE  Pick(kept, Q) = <<>> /\ here - Counted(Repeats(kept), here) = 0
    OBVIOUS
  <2>1. Len(kept) = 0
    OBVIOUS
  <2>2. here = 0
    <3>1. old \in Nat /\ old > 0
      BY <1>1, <1>7
    <3> QED
      BY <2>1, <3>1 DEF Least
  <2>3. Q = {} /\ Repeats(kept) = {}
    <3>1. 1..Len(kept) = {}
      BY <2>1
    <3>2. Repeats(kept) \in SUBSET (1..Len(kept))
      BY <1>5, RepeatsPlaces
    <3> QED
      BY <3>1, <3>2, <1>9
  <2>4. Pick(kept, Q) \in Seq(S) /\ Len(Pick(kept, Q)) = 0
    BY <2>3, <1>5, <1>9, PickFacts, FS_EmptySet
  <2>5. {i \in Repeats(kept) : i <= here} = {}
    BY <2>3
  <2>6. Counted(Repeats(kept), here) = 0
    BY <2>5, FS_EmptySet DEF Counted
  <2> QED
    BY <2>2, <2>4, <2>6
<1>14. s[p] \notin keys => kept # <<>> /\ kept[here] = s[p]
  <2> SUFFICES ASSUME s[p] \notin keys PROVE kept # <<>> /\ kept[here] = s[p]
    OBVIOUS
  <2>1. p \in stay
    BY <1>1, <1>3
  <2>2. Counted(stay, p - 1) = Rank(stay, p)
    <3>1. \A i \in stay : i <= p - 1 <=> i < p
      <4> \A i \in stay : i \in 1..n
        BY <1>2
      <4> QED
        BY <1>1
    <3>2. {i \in stay : i <= p - 1} = {i \in stay : i < p}
      BY <3>1
    <3> QED
      BY <3>2 DEF Counted, Rank
  <2>3. old \in 1..Len(kept) /\ kept[old] = s[p]
    <3>1. old = Rank(stay, p) + 1
      BY <2>2, <1>7
    <3> QED
      BY <2>1, <3>1, <1>5
  <2>4. here = old
    <3>1. ASSUME NEW m \in Nat, NEW k \in 1..m PROVE Least(k, m) = k
      BY DEF Least
    <3>2. Len(kept) \in Nat
      BY <1>6
    <3> QED
      BY <2>3, <3>1, <3>2
  <2> HIDE DEF here
  <2>5. kept # <<>>
    <3>1. kept = <<>> => Len(kept) = 0
      OBVIOUS
    <3>2. Len(kept) # 0
      BY <2>3, <1>6
    <3> QED
      BY <3>1, <3>2
  <2> QED
    BY <2>3, <2>4, <2>5
<1> DEFINE d == here - Counted(Repeats(kept), here)
<1>15. RemoveKeys(s, p, keys) = [stack |-> Pick(kept, Q), pos |-> d]
  BY <1>8
<1> HIDE DEF here, d
<1>16. /\ d \in Nat
       /\ Pick(kept, Q) # <<>> => d \in 1..Len(Pick(kept, Q))
       /\ s[p] \notin keys => d \in 1..Len(Pick(kept, Q)) /\ Pick(kept, Q)[d] = s[p]
  <2>1. Len(Pick(kept, Q)) \in Nat
    BY <1>10
  <2>2. CASE kept = <<>>
    BY <2>2, <1>13, <1>14 DEF d
  <2>3. CASE kept # <<>>
    BY <2>1, <2>3, <1>12, <1>14 DEF d
  <2> QED
    BY <2>2, <2>3
<1> QED
  BY <1>10, <1>15, <1>16

(* What going somewhere makes of it (Backstack::push). *)
LEMMA Pushed ==
  ASSUME NEW S, NEW s \in Seq(S), NEW p \in Nat, NEW u \in S,
         Repeats(s) = {}, s # <<>> => p \in 1..Len(s)
  PROVE  LET c == Push(s, p, u) IN
         /\ c.stack \in Seq(S) /\ c.pos \in 1..Len(c.stack) /\ c.stack[c.pos] = u
         /\ Repeats(c.stack) = {}
<1> DEFINE q == p + 1
           t == Append(SubSeq(s, 1, p), u)
           start == IF q > StackMax THEN Less(p, StackKeep) ELSE 0
           r == SubSeq(t, start + 1, q)
<1>1. CASE s = <<>>
  <2>1. Push(s, p, u) = [stack |-> <<u>>, pos |-> 1]
    BY <1>1, Zenon DEF Push
  <2>2. <<u>> \in Seq(S) /\ Len(<<u>>) = 1 /\ <<u>>[1] = u
    OBVIOUS
  <2>3. Repeats(<<u>>) = {}
    <3>1. Repeats(<<u>>) \subseteq 2..Len(<<u>>)
      BY DEF Repeats
    <3>2. 2..1 = {}
      OBVIOUS
    <3> QED
      BY <2>2, <3>1, <3>2
  <2>4. 1 \in 1..Len(<<u>>)
    BY <2>2
  <2> QED
    BY <2>1, <2>2, <2>3, <2>4
<1>2. CASE s # <<>> /\ s[p] = u
  <2>1. Push(s, p, u) = [stack |-> s, pos |-> p]
    BY <1>2 DEF Push
  <2> QED
    BY <1>2, <2>1
<1>3. CASE s # <<>> /\ s[p] # u
  <2>1. Push(s, p, u) = [stack |-> r, pos |-> q - start]
    BY <1>3 DEF Push
  <2>2. Len(s) \in Nat /\ p \in 1..Len(s)
    BY <1>3
  <2>3. start \in 0..p
    BY <2>2, TabAssumption DEF Less
  <2>4. /\ t \in Seq(S) /\ Len(t) = p + 1 /\ t[p + 1] = u
        /\ \A i \in 1..p : t[i] = s[i]
    BY <2>2
  <2>5. \A i \in 2..p+1 : t[i] # t[i - 1]
    <3> SUFFICES ASSUME NEW i \in 2..p+1 PROVE t[i] # t[i - 1]
      OBVIOUS
    <3>1. CASE i = p + 1
      BY <3>1, <1>3, <2>2, <2>4
    <3>2. CASE i # p + 1
      <4>1. i \in 2..Len(s) /\ i \in 1..p /\ i - 1 \in 1..p
        BY <3>2, <2>2
      <4>2. s[i] # s[i - 1]
        BY <4>1 DEF Repeats
      <4> QED
        BY <4>1, <4>2, <2>4
    <3> QED
      BY <3>1, <3>2
  <2> HIDE DEF t, start
  <2>6. /\ r \in Seq(S) /\ Len(r) = q - start
        /\ \A i \in 1..q-start : r[i] = t[start + i]
    BY <2>2, <2>3, <2>4
  <2> HIDE DEF r
  <2>7. Repeats(r) = {}
    <3> SUFFICES ASSUME NEW i \in 2..Len(r), r[i] = r[i - 1] PROVE FALSE
      BY DEF Repeats
    <3>1. i \in 1..q-start /\ i - 1 \in 1..q-start /\ start + i \in 2..p+1 /\ start + (i - 1) = (start + i) - 1
      BY <2>2, <2>3, <2>6
    <3>2. r[i] = t[start + i] /\ r[i - 1] = t[(start + i) - 1]
      BY <3>1, <2>6
    <3>3. t[start + i] # t[(start + i) - 1]
      BY <3>1, <2>5
    <3> QED
      BY <3>2, <3>3
  <2>8. q - start \in 1..q-start /\ start + (q - start) = p + 1
    BY <2>2, <2>3
  <2> QED
    BY <2>1, <2>4, <2>6, <2>7, <2>8
<1> QED
  BY <1>1, <1>2, <1>3

Spots == {Home} \cup Dirs

StackInv ==
  /\ stack \in Seq(Spots) /\ pos \in Nat /\ cwd \in Spots
  /\ StackSound

(* It stands at first, *)
LEMMA StackInit == Init => StackInv
<1> SUFFICES ASSUME Init PROVE StackInv
  OBVIOUS
<1>1. cwd = Home /\ pos = Len(stack) /\ Home \in Spots
  BY DEF Init, Spots
<1>2. CASE stack = <<Home>>
  <2>1. /\ <<Home>> \in Seq(Spots) /\ Len(<<Home>>) = 1 /\ <<Home>>[1] = Home
        /\ DOMAIN <<Home>> = {1}
    BY <1>1
  <2>2. Repeats(<<Home>>) \subseteq 2..1 /\ 2..1 = {}
    BY <2>1 DEF Repeats
  <2> QED
    BY <1>1, <1>2, <2>1, <2>2 DEF StackInv, StackSound
<1>3. CASE \E d \in Dirs : stack = <<d, Home>>
  <2>1. PICK d \in Dirs : stack = <<d, Home>>
    BY <1>3
  <2>2. d \in Spots /\ d # Home
    BY TabAssumption DEF Spots
  <2>3. /\ <<d, Home>> \in Seq(Spots) /\ Len(<<d, Home>>) = 2
        /\ <<d, Home>>[1] = d /\ <<d, Home>>[2] = Home
        /\ DOMAIN <<d, Home>> = 1..2
    BY <1>1, <2>2
  <2>4. Repeats(stack) \subseteq {2} /\ 2 \notin Repeats(stack)
    <3>1. \A i \in 2..2 : i = 2
      OBVIOUS
    <3> QED
      BY <2>1, <2>2, <2>3, <3>1 DEF Repeats
  <2>5. Repeats(stack) = {}
    BY <2>4
  <2> QED
    BY <1>1, <2>1, <2>3, <2>5 DEF StackInv, StackSound
<1>4. stack = <<Home>> \/ \E d \in Dirs : stack = <<d, Home>>
  BY DEF Init
<1> QED
  BY <1>2, <1>3, <1>4

(* and when the tab goes somewhere, *)
LEMMA StackGoes ==
  ASSUME NEW f, NEW to \in Spots, NEW s \in Seq(Spots), NEW p \in Nat,
         Repeats(s) = {}, s # <<>> => p \in 1..Len(s), Cd(f, to, [stack |-> s, pos |-> p])
  PROVE  StackInv'
<1> DEFINE c == Push(s, p, to)
<1>1. cwd' = to /\ stack' = c.stack /\ pos' = c.pos
  BY DEF Cd
<1>2. /\ c.stack \in Seq(Spots) /\ c.pos \in 1..Len(c.stack) /\ c.stack[c.pos] = to
      /\ Repeats(c.stack) = {}
  BY Pushed
<1> HIDE DEF c
<1>3. stack' \in Seq(Spots) /\ pos' \in 1..Len(stack') /\ stack'[pos'] = cwd' /\ cwd' \in Spots
  BY <1>1, <1>2
<1>4. Repeats(stack') = {}
  BY <1>1, <1>2
<1> QED
  BY <1>3, <1>4 DEF StackInv, StackSound

(* and in every step. *)
LEMMA StackStep == StackInv /\ [Next]_vars => StackInv'
<1> SUFFICES ASSUME StackInv, [Next]_vars PROVE StackInv'
  OBVIOUS
<1>1. /\ stack \in Seq(Spots) /\ pos \in 1..Len(stack) /\ stack[pos] = cwd /\ Repeats(stack) = {}
      /\ pos \in Nat /\ stack # <<>> /\ DOMAIN stack = 1..Len(stack) /\ cwd \in Spots
  BY DEF StackInv, StackSound
<1>2. CASE UNCHANGED place
  BY <1>2 DEF place, StackInv, StackSound, Repeats
<1>3. CASE UpdateDeleted
  <2> DEFINE keys == Head(queue).keys
             b == RemoveKeys(stack, pos, keys)
  <2>0. /\ b.stack \in Seq(Spots) /\ b.pos \in Nat /\ Repeats(b.stack) = {}
        /\ b.stack # <<>> => b.pos \in 1..Len(b.stack)
        /\ stack[pos] \notin keys => b.pos \in 1..Len(b.stack) /\ b.stack[b.pos] = stack[pos]
    <3> HIDE DEF keys
    <3>1. stack \in Seq(Spots) /\ pos \in 1..Len(stack)
      BY <1>1
    <3>2. b.stack \in Seq(Spots)
      BY <3>1, Removed
    <3>3. b.pos \in Nat
      BY <3>1, Removed
    <3>4. Repeats(b.stack) = {}
      BY <3>1, Removed
    <3>5. b.stack # <<>> => b.pos \in 1..Len(b.stack)
      BY <3>1, Removed
    <3>6. stack[pos] \notin keys => b.pos \in 1..Len(b.stack) /\ b.stack[b.pos] = stack[pos]
      BY <3>1, Removed
    <3> QED
      BY <3>2, <3>3, <3>4, <3>5, <3>6
  <2>1. /\ b.stack \in Seq(Spots) /\ b.pos \in Nat /\ Repeats(b.stack) = {}
        /\ b.stack # <<>> => b.pos \in 1..Len(b.stack)
        /\ cwd \notin keys => b.pos \in 1..Len(b.stack) /\ b.stack[b.pos] = cwd
    <3> HIDE DEF b
    <3> QED
      BY <1>1, <2>0
  <2>2. CASE cwd \in keys
    <3>1. PICK f : Cd(f, Home, b)
      BY <1>3, <2>2 DEF UpdateDeleted
    <3>2. b = [stack |-> b.stack, pos |-> b.pos]
      BY DEF RemoveKeys
    <3> HIDE DEF b
    <3>3. Cd(f, Home, [stack |-> b.stack, pos |-> b.pos])
      BY <3>1, <3>2
    <3>4. Home \in Spots
      BY DEF Spots
    <3> QED
      BY <3>3, <3>4, <2>1, StackGoes
  <2>3. CASE cwd \notin keys
    <3>1. stack' = b.stack /\ pos' = b.pos /\ cwd' = cwd
      BY <1>3, <2>3 DEF UpdateDeleted
    <3> HIDE DEF b
    <3>2. Repeats(stack') = {}
      BY <3>1, <2>1
    <3> QED
      BY <3>1, <3>2, <2>1, <2>3, <1>1 DEF StackInv, StackSound
  <2> QED
    BY <2>2, <2>3
<1>4. CASE Reveal
  <2>1. CASE cwd = Home
    BY <1>2, <1>4, <2>1 DEF Reveal
  <2>2. CASE cwd # Home
    <3> DEFINE c == Push(stack, pos, Home)
    <3>1. cwd' = Home /\ stack' = c.stack /\ pos' = c.pos
      BY <1>4, <2>2 DEF Reveal
    <3>2. Home \in Spots
      BY DEF Spots
    <3>3. /\ c.stack \in Seq(Spots) /\ c.pos \in 1..Len(c.stack) /\ c.stack[c.pos] = Home
          /\ Repeats(c.stack) = {}
      BY <1>1, <3>2, Pushed
    <3> HIDE DEF c
    <3>4. Repeats(stack') = {}
      BY <3>1, <3>3
    <3> QED
      BY <3>1, <3>2, <3>3, <3>4 DEF StackInv, StackSound
  <2> QED
    BY <2>1, <2>2
<1>5. CASE Go
  <2>1. PICK to \in Spots, p \in 1..Len(stack) : Cd(home, to, [stack |-> stack, pos |-> p])
    <3>1. CASE Hovered(home) \in Dirs /\ Cd(home, Hovered(home), [stack |-> stack, pos |-> pos])
      BY <1>1, <3>1 DEF Spots
    <3>2. CASE Cd(home, Home, [stack |-> stack, pos |-> pos])
      BY <1>1, <3>2 DEF Spots
    <3>3. CASE \E p \in {pos - 1, pos + 1} \cap DOMAIN stack : Cd(home, stack[p], [stack |-> stack, pos |-> p])
      <4>1. PICK p \in 1..Len(stack) : Cd(home, stack[p], [stack |-> stack, pos |-> p])
        BY <1>1, <3>3
      <4>2. stack[p] \in Spots
        BY <1>1
      <4> QED
        BY <4>1, <4>2
    <3> QED
      BY <1>5, <3>1, <3>2, <3>3 DEF Go
  <2> QED
    BY <1>1, <2>1, StackGoes
<1>6. CASE Others \/ Announce \/ EndRead
  BY <1>2, <1>6 DEF Others, Announce, EndRead
<1>7. ASSUME NEW n \in Names, CreateFile(n) PROVE StackInv'
  BY <1>2, <1>7 DEF CreateFile
<1>8. ASSUME NEW old \in Names, NEW new \in Names, RenameFile(old, new) PROVE StackInv'
  BY <1>2, <1>8 DEF RenameFile
<1>9. ASSUME NEW k \in 1..Len(pending), Watch(k) PROVE StackInv'
  BY <1>2, <1>9 DEF Watch
<1>10. ASSUME NEW k, Read(k) PROVE StackInv'
  BY <1>2, <1>10 DEF Read
<1>11. CASE UpdateLoad \/ UpdateUpserted \/ Invalidate
  BY <1>2, <1>11 DEF UpdateLoad, UpdateUpserted, Invalidate
<1>12. CASE User /\ ~Go
  BY <1>2, <1>12 DEF User, Move, SortBy, ToggleHidden, FilterDo, Select, Focus
<1>13. CASE UNCHANGED vars
  BY <1>2, <1>13 DEF vars
<1> QED
  BY <1>3, <1>4, <1>5, <1>6, <1>7, <1>8, <1>9, <1>10, <1>11, <1>12, <1>13 DEF Next, Deliver, User

(* The back stack stands where the tab is, and no place on it repeats the  *)
(* one before, whatever the user does and whatever disappears.             *)
THEOREM StackStands == Spec => []StackSound
BY StackInit, StackStep, PTL DEF Spec, StackInv

-----------------------------------------------------------------------------
(* The operators of Pane. *)

(* The keys of files are names. *)
LEMMA KeysNames ==
  ASSUME NEW s \in Seq(Files)
  PROVE  /\ Keys(s) = {s[i].key : i \in 1..Len(s)} /\ Keys(s) \in SUBSET Names
         /\ \A i \in 1..Len(s) : s[i] \in Files /\ s[i].key \in Names /\ s[i].stat \in Nat
         /\ DOMAIN s = 1..Len(s) /\ Len(s) \in Nat
<1>1. DOMAIN s = 1..Len(s) /\ Len(s) \in Nat /\ \A i \in 1..Len(s) : s[i] \in Files
  OBVIOUS
<1> QED
  BY <1>1 DEF Keys, Files

(* Two lists together have the keys of both, *)
LEMMA ConcatKeys ==
  ASSUME NEW s \in Seq(Files), NEW t \in Seq(Files)
  PROVE  s \o t \in Seq(Files) /\ Keys(s \o t) = Keys(s) \cup Keys(t)
<1>1. s \o t \in Seq(Files) /\ Len(s) \in Nat /\ Len(t) \in Nat /\ Len(s \o t) = Len(s) + Len(t)
  OBVIOUS
<1>2. ASSUME NEW k PROVE k \in Keys(s \o t) => k \in Keys(s) \cup Keys(t)
  <2> SUFFICES ASSUME NEW i \in 1..Len(s) + Len(t), k = (s \o t)[i].key PROVE k \in Keys(s) \cup Keys(t)
    <3>1. Keys(s \o t) = {(s \o t)[i].key : i \in 1..Len(s \o t)}
      BY <1>1, KeysNames
    <3> QED
      BY <1>1, <3>1
  <2>1. CASE i <= Len(s)
    <3>1. i \in 1..Len(s) /\ (s \o t)[i] = s[i]
      BY <1>1, <2>1
    <3> QED
      BY <3>1, KeysNames
  <2>2. CASE i > Len(s)
    <3>1. i - Len(s) \in 1..Len(t) /\ (s \o t)[i] = t[i - Len(s)]
      BY <1>1, <2>2
    <3> QED
      BY <3>1, KeysNames
  <2> QED
    BY <1>1, <2>1, <2>2
<1>3. ASSUME NEW i \in 1..Len(s) PROVE s[i].key \in Keys(s \o t)
  <2>1. i \in 1..Len(s \o t) /\ (s \o t)[i] = s[i]
    BY <1>1
  <2> QED
    BY <1>1, <2>1, KeysNames
<1>4. ASSUME NEW i \in 1..Len(t) PROVE t[i].key \in Keys(s \o t)
  <2>1. Len(s) + i \in 1..Len(s \o t) /\ (s \o t)[Len(s) + i] = t[i]
    BY <1>1
  <2> QED
    BY <1>1, <2>1, KeysNames
<1>5. Keys(s) \cup Keys(t) \subseteq Keys(s \o t)
  BY <1>3, <1>4, KeysNames, SMTT(60)
<1> QED
  BY <1>1, <1>2, <1>5

(* those that are picked have the keys that they had, *)
LEMMA PickKeys ==
  ASSUME NEW s \in Seq(Files), NEW P \in SUBSET (1..Len(s))
  PROVE  /\ Pick(s, P) \in Seq(Files) /\ Len(Pick(s, P)) = Cardinality(P)
         /\ Keys(Pick(s, P)) = {s[i].key : i \in P}
<1>1. /\ Pick(s, P) \in Seq(Files) /\ Len(Pick(s, P)) = Cardinality(P)
      /\ \A i \in P : Rank(P, i) + 1 \in 1..Cardinality(P) /\ Pick(s, P)[Rank(P, i) + 1] = s[i]
      /\ \A k \in 1..Cardinality(P) : \E i \in P : k = Rank(P, i) + 1
  BY PickFacts
<1> DEFINE r == Pick(s, P)
<1> HIDE DEF r
<1>2. DOMAIN r = 1..Cardinality(P)
  BY <1>1 DEF r
<1>3. \A k \in DOMAIN r : \E i \in P : r[k] = s[i]
  BY <1>1, <1>2 DEF r
<1>4. \A i \in P : \E k \in DOMAIN r : r[k] = s[i]
  BY <1>1, <1>2 DEF r
<1>5. Keys(r) = {s[i].key : i \in P}
  BY <1>3, <1>4 DEF Keys
<1> QED
  BY <1>1, <1>5 DEF r

(* and splitting loses none. *)
LEMMA SplitFacts ==
  ASSUME NEW f, NEW s \in Seq(Files)
  PROVE  /\ Split(f, s).items \in Seq(Files) /\ Split(f, s).hidden \in Seq(Files)
         /\ Keys(Split(f, s).items) \cup Keys(Split(f, s).hidden) = Keys(s)
         /\ Len(Split(f, s).items) = Len(s) => Split(f, s).items = s
<1> DEFINE shown == {i \in DOMAIN s : Visible(f, s[i].key)}
           rest == DOMAIN s \ shown
<1>1. DOMAIN s = 1..Len(s) /\ Len(s) \in Nat
  OBVIOUS
<1>2. shown \in SUBSET (1..Len(s)) /\ rest \in SUBSET (1..Len(s)) /\ shown \cup rest = DOMAIN s
  BY <1>1
<1>3. Split(f, s).items = Pick(s, shown) /\ Split(f, s).hidden = Pick(s, rest)
  BY DEF Split, Without
<1> HIDE DEF shown, rest
<1>4. /\ Pick(s, shown) \in Seq(Files) /\ Len(Pick(s, shown)) = Cardinality(shown)
      /\ Keys(Pick(s, shown)) = {s[i].key : i \in shown}
      /\ Pick(s, rest) \in Seq(Files) /\ Keys(Pick(s, rest)) = {s[i].key : i \in rest}
  BY <1>2, PickKeys
<1>5. Keys(Pick(s, shown)) \cup Keys(Pick(s, rest)) = Keys(s)
  <2>1. {s[i].key : i \in shown} \cup {s[i].key : i \in rest} = {s[i].key : i \in DOMAIN s}
    BY <1>2
  <2> QED
    BY <1>4, <2>1 DEF Keys
<1>6. ASSUME Cardinality(shown) = Len(s) PROVE Pick(s, shown) = s
  <2>1. IsFiniteSet(1..Len(s)) /\ Cardinality(1..Len(s)) = Len(s)
    BY <1>1, FS_Interval
  <2>2. shown = 1..Len(s)
    BY <1>2, <1>6, <2>1, FS_Subset
  <2> QED
    BY <2>2, PickAll
<1> QED
  BY <1>3, <1>4, <1>5, <1>6

(* Names have places in the alphabet. *)
LEMMA Places ==
  /\ \A n \in Names : Place[n] \in Nat
  /\ \A m, n \in Names : Place[m] = Place[n] => m = n
<1>1. ASSUME NEW n \in Names PROVE Place[n] \in Nat /\ Alphabet[Place[n]] = n
  <2>1. DOMAIN Alphabet \in SUBSET Nat
    BY PaneAssumption
  <2>2. \E i \in DOMAIN Alphabet : Alphabet[i] = n
    BY DEF Names, ToSet
  <2>3. Place[n] = CHOOSE i \in DOMAIN Alphabet : Alphabet[i] = n
    BY DEF Place
  <2> QED
    BY <2>1, <2>2, <2>3
<1> QED
  BY <1>1

(* There are finitely many names. *)
LEMMA NamesFinite == IsFiniteSet(Names)
<1>1. DOMAIN Alphabet = 1..Len(Alphabet) /\ Len(Alphabet) \in Nat
  BY PaneAssumption
<1>2. IsFiniteSet(1..Len(Alphabet))
  BY <1>1, FS_Interval
<1>3. Alphabet \in Surjection(1..Len(Alphabet), Names)
  BY <1>1, PaneAssumption DEF Surjection, Names, ToSet
<1> QED
  BY <1>2, <1>3, FS_Surjection

(* The order of files. *)
LEMMA BeforeFacts ==
  ASSUME NEW by \in {"name", "time"}
  PROVE  /\ \A x \in Files : ~Before(by, x, x)
         /\ \A x, y \in Files : Before(by, x, y) => ~Before(by, y, x)
         /\ \A x, y, z \in Files : Before(by, x, y) /\ ~Before(by, z, y) => Before(by, x, z)
<1>1. \A x \in Files : x.stat \in Nat /\ Place[x.key] \in Nat
  BY Places DEF Files
<1> QED
  BY <1>1 DEF Before

(* Sorting loses no file. *)
LEMMA SortedFacts ==
  ASSUME NEW f, f.by \in {"name", "time"}, NEW s \in Seq(Files)
  PROVE  /\ Sorted(f, s) \in Seq(Files) /\ Len(Sorted(f, s)) = Len(s)
         /\ Keys(Sorted(f, s)) = Keys(s)
<1> DEFINE D == 1..Len(s)
           Precedes(i, j) == \/ Before(f.by, s[i], s[j])
                             \/ i < j /\ ~Before(f.by, s[j], s[i])
           R == {p \in D \X D : Precedes(p[1], p[2])}
           Those(j) == {i \in D : Precedes(i, j)}
           r == [n \in D |-> s[CHOOSE j \in D : Cardinality(Those(j)) = n - 1]]
<1>1. Len(s) \in Nat /\ DOMAIN s = D /\ \A i \in D : s[i] \in Files
  OBVIOUS
<1>2. Sorted(f, s) = r
  BY <1>1 DEF Sorted
<1>3. \A i, j \in D : <<i, j>> \in R <=> Precedes(i, j)
  OBVIOUS
<1>4. \A i \in D : <<i, i>> \notin R
  BY <1>1, <1>3, BeforeFacts
<1>5. \A i, j \in D : i # j => <<i, j>> \in R \/ <<j, i>> \in R
  BY <1>1, <1>3, BeforeFacts
<1>6. \A i, j, k \in D : <<i, j>> \in R /\ <<j, k>> \in R => <<i, k>> \in R
  <2> SUFFICES ASSUME NEW i \in D, NEW j \in D, NEW k \in D, Precedes(i, j), Precedes(j, k)
               PROVE  Precedes(i, k)
    BY <1>3
  <2>1. s[i] \in Files /\ s[j] \in Files /\ s[k] \in Files /\ i \in Nat /\ j \in Nat /\ k \in Nat
    BY <1>1
  <2> DEFINE B(x, y) == Before(f.by, x, y)
             a == s[i]  b == s[j]  c == s[k]
  <2>2. /\ B(a, b) => ~B(b, a)
        /\ B(b, c) => ~B(c, b)
        /\ B(a, c) => ~B(c, a)
        /\ B(a, b) /\ ~B(c, b) => B(a, c)
        /\ B(b, c) /\ ~B(a, c) => B(b, a)
        /\ B(c, a) /\ ~B(b, a) => B(c, b)
    BY <2>1, BeforeFacts
  <2>3. /\ B(a, b) \/ (i < j /\ ~B(b, a))
        /\ B(b, c) \/ (j < k /\ ~B(c, b))
    OBVIOUS
  <2> HIDE DEF B, a, b, c
  <2>4. B(a, c) \/ (i < k /\ ~B(c, a))
    BY <2>1, <2>2, <2>3
  <2> QED
    BY <2>4 DEF B, a, b, c
<1>7. IsFiniteSet(D) /\ Cardinality(D) = Len(s)
  <2>1. Len(s) \in Int /\ Len(s) >= 0
    BY <1>1
  <2> HIDE DEF Precedes, R, Those, r
  <2> QED
    BY <2>1, FS_Interval
<1>8. \A i \in D : Preceding(D, R, i) = Cardinality(Those(i))
  <2> SUFFICES ASSUME NEW i \in D PROVE {j \in D : <<j, i>> \in R} = Those(i)
    BY DEF Preceding
  <2> QED
    BY <1>3
<1> HIDE DEF R, Those, D
<1>9. /\ \A i \in D : Preceding(D, R, i) \in 0..Cardinality(D)-1
      /\ \A i, j \in D : <<i, j>> \in R => Preceding(D, R, i) < Preceding(D, R, j)
      /\ \A n \in 0..Cardinality(D)-1 : \E i \in D : Preceding(D, R, i) = n
  BY <1>4, <1>5, <1>6, <1>7, Ranks
<1>10. \A n \in D : n \in Nat /\ n - 1 \in 0..Len(s)-1
  BY <1>1 DEF D
<1>11. \A n \in D : \E j \in D : Cardinality(Those(j)) = n - 1
  BY <1>7, <1>8, <1>9, <1>10
<1>12. \A n \in D : \E j \in D : r[n] = s[j]
  BY <1>11
<1>13. \A j \in D : \E n \in D : r[n] = s[j]
  <2> SUFFICES ASSUME NEW j \in D PROVE \E n \in D : r[n] = s[j]
    OBVIOUS
  <2> DEFINE n == Cardinality(Those(j)) + 1
             k == CHOOSE j_1 \in D : Cardinality(Those(j_1)) = n - 1
  <2>1. Cardinality(Those(j)) \in 0..Len(s)-1
    BY <1>7, <1>8, <1>9
  <2>2. n \in D /\ n - 1 = Cardinality(Those(j))
    BY <1>1, <2>1 DEF D
  <2>3. k \in D /\ Cardinality(Those(k)) = Cardinality(Those(j))
    BY <2>2
  <2> HIDE DEF k
  <2>4. k = j
    <3>1. Preceding(D, R, k) = Preceding(D, R, j) /\ Preceding(D, R, j) \in Int
      BY <1>7, <1>8, <1>9, <2>1, <2>3
    <3>2. SUFFICES ASSUME k # j PROVE FALSE
      OBVIOUS
    <3>3. CASE <<k, j>> \in R
      <4>1. Preceding(D, R, k) < Preceding(D, R, j)
        BY <1>9, <2>3, <3>3
      <4> QED
        BY <3>1, <4>1
    <3>4. CASE <<j, k>> \in R
      <4>1. Preceding(D, R, j) < Preceding(D, R, k)
        BY <1>9, <2>3, <3>4
      <4> QED
        BY <3>1, <4>1
    <3> QED
      BY <1>5, <2>3, <3>2, <3>3, <3>4
  <2>5. r[n] = s[k]
    BY <2>2 DEF k
  <2> QED
    BY <2>2, <2>4, <2>5
<1>14. r \in [D -> Files]
  BY <1>1, <1>12
<1>15. r \in Seq(Files) /\ Len(r) = Len(s)
  <2> HIDE DEF r
  <2> QED
    BY <1>1, <1>14 DEF D
<1>16. Keys(r) = Keys(s)
  <2>1. DOMAIN r = D
    OBVIOUS
  <2> HIDE DEF r
  <2>2. Keys(r) = {r[n].key : n \in D}
    BY <2>1, Zenon DEF Keys
  <2>3. Keys(s) = {s[j].key : j \in D}
    BY <1>1, Zenon DEF Keys
  <2>4. ASSUME NEW n \in D PROVE r[n].key \in Keys(s)
    <3>1. PICK j \in D : r[n] = s[j]
      BY <1>12
    <3> QED
      BY <2>3, <3>1, Zenon
  <2>5. ASSUME NEW j \in D PROVE s[j].key \in Keys(r)
    <3>1. PICK n \in D : r[n] = s[j]
      BY <1>13
    <3>2. r[n].key = s[j].key
      BY <3>1, Zenon
    <3> QED
      BY <2>2, <3>2, Zenon
  <2>6. Keys(r) \subseteq Keys(s)
    BY <2>2, <2>4, Zenon
  <2>7. Keys(s) \subseteq Keys(r)
    BY <2>3, <2>5, Zenon
  <2> QED
    BY <2>6, <2>7, Zenon
<1> QED
  BY <1>2, <1>15, <1>16

(* Any finite set can be listed. *)
LEMMA ListFacts ==
  ASSUME NEW S, IsFiniteSet(S)
  PROVE  SetToSeq(S) \in Seq(S) /\ \A x \in S : \E i \in DOMAIN SetToSeq(S) : SetToSeq(S)[i] = x
<1> DEFINE m == Cardinality(S)
           q == SetToSeq(S)
<1>1. m \in Nat /\ ExistsBijection(1..m, S)
  BY FS_CardinalityType
<1>2. \E g \in [1..m -> S] : IsInjective(g)
  BY <1>1 DEF ExistsBijection, Bijection, Injection
<1>3. q \in [1..m -> S] /\ IsInjective(q)
  BY <1>2 DEF SetToSeq
<1> HIDE DEF q
<1>4. q \in Injection(1..m, S)
  BY <1>3 DEF Injection
<1>5. Cardinality(1..m) = m
  BY <1>1, FS_Interval
<1>6. q \in Surjection(1..m, S)
  BY <1>4, <1>5, FS_Injection
<1>7. q \in Seq(S) /\ DOMAIN q = 1..m
  BY <1>1, <1>3
<1> QED
  BY <1>6, <1>7 DEF q, Surjection

(* Whatever is looked for is found at one place at least. *)
LEMMA FirstFacts ==
  ASSUME NEW s \in Seq(Files), NEW keys
  PROVE  /\ First(s, keys) \in SUBSET (1..Len(s))
         /\ \A i \in First(s, keys) : s[i].key \in keys
         /\ \A k \in Keys(s) \cap keys : \E i \in First(s, keys) : s[i].key = k
<1>1. /\ Keys(s) = {s[i].key : i \in 1..Len(s)}
      /\ DOMAIN s = 1..Len(s) /\ Len(s) \in Nat
  BY KeysNames
<1>2. ASSUME NEW k \in Keys(s) \cap keys PROVE \E i \in First(s, keys) : s[i].key = k
  <2> DEFINE A == {i \in 1..Len(s) : s[i].key = k}
  <2>1. A \in SUBSET Nat /\ A # {}
    BY <1>1
  <2>2. PICK m \in A : \A i \in A : m <= i
    <3> HIDE DEF A
    <3> QED
      BY <2>1, LeastNatural
  <2>3. \A j \in 1..m-1 : s[j].key # k
    <3> SUFFICES ASSUME NEW j \in 1..m-1, s[j].key = k PROVE FALSE
      OBVIOUS
    <3>1. m \in Nat /\ m <= Len(s) /\ j \in Nat /\ j < m /\ j >= 1
      BY <1>1
    <3>2. j \in 1..Len(s)
      BY <1>1, <3>1
    <3> QED
      BY <2>2, <3>1, <3>2
  <2>4. m \in First(s, keys)
    BY <1>1, <2>3 DEF First
  <2> QED
    BY <2>4
<1> QED
  BY <1>1, <1>2 DEF First

(* New files take the places of old ones. *)
LEMMA ExistingFacts ==
  ASSUME NEW s \in Seq(Files), NEW K, NEW files \in [K -> Files]
  PROVE  /\ Existing(s, files) \in Seq(Files)
         /\ \A k \in Keys(s) \cap K : files[k].key \in Keys(Existing(s, files))
         /\ Keys(s) \ K \subseteq Keys(Existing(s, files))
<1> DEFINE r == Existing(s, files)
           found == First(s, K)
<1>1. /\ Keys(s) = {s[i].key : i \in 1..Len(s)}
      /\ DOMAIN s = 1..Len(s) /\ Len(s) \in Nat /\ \A i \in 1..Len(s) : s[i] \in Files
  BY KeysNames
<1>2. /\ found \in SUBSET (1..Len(s)) /\ \A i \in found : s[i].key \in K
      /\ \A k \in Keys(s) \cap K : \E i \in found : s[i].key = k
  BY FirstFacts
<1>3. r = [i \in 1..Len(s) |-> IF i \in found THEN files[s[i].key] ELSE s[i]]
  BY <1>1 DEF Existing
<1> HIDE DEF found, r
<1>4. r \in [1..Len(s) -> Files]
  BY <1>1, <1>2, <1>3
<1>5. r \in Seq(Files) /\ DOMAIN r = 1..Len(s)
  BY <1>1, <1>4
<1>6. ASSUME NEW k \in Keys(s) \cap K PROVE files[k].key \in Keys(r)
  <2>1. PICK i \in found : s[i].key = k
    BY <1>2
  <2>2. i \in DOMAIN r /\ r[i] = files[k]
    BY <1>2, <1>3, <1>5, <2>1
  <2> QED
    BY <2>2 DEF Keys
<1>7. ASSUME NEW k \in Keys(s) \ K PROVE k \in Keys(r)
  <2>1. PICK i \in 1..Len(s) : s[i].key = k
    BY <1>1
  <2>2. i \in DOMAIN r /\ r[i] = s[i]
    BY <1>2, <1>3, <1>5, <2>1
  <2> QED
    BY <2>1, <2>2 DEF Keys
<1> QED
  BY <1>5, <1>6, <1>7 DEF r

(* The others come at the end. *)
LEMMA RestFacts ==
  ASSUME NEW s \in Seq(Files), NEW K \in SUBSET Names, NEW files \in [K -> Files]
  PROVE  /\ Rest(s, files) \in Seq(Files)
         /\ \A k \in K \ Keys(s) : files[k].key \in Keys(Rest(s, files))
<1> DEFINE D == K \ Keys(s)
           S == {files[k] : k \in D}
           g == [k \in D |-> files[k]]
<1>1. IsFiniteSet(D)
  BY NamesFinite, FS_Subset
<1>2. g \in Surjection(D, S)
  BY DEF Surjection
<1>3. IsFiniteSet(S)
  <2> HIDE DEF D, S, g
  <2> QED
    BY <1>1, <1>2, FS_Surjection
<1>4. S \subseteq Files /\ Rest(s, files) = SetToSeq(S) /\ \A k \in D : files[k] \in S
  BY DEF Rest
<1> DEFINE r == SetToSeq(S)
<1> HIDE DEF S, r
<1>5. r \in Seq(S) /\ \A x \in S : \E i \in DOMAIN r : r[i] = x
  BY <1>3, ListFacts DEF r
<1>6. r \in Seq(Files)
  BY <1>4, <1>5
<1>7. ASSUME NEW k \in D PROVE files[k].key \in Keys(r)
  BY <1>4, <1>5 DEF Keys
<1> QED
  BY <1>4, <1>6, <1>7 DEF r

(* What a folder lists, shown or not. *)
AllKeys(f) == Keys(f.items) \cup Keys(f.hidden)

(* From f to g the entries change and nothing else; other items are a new  *)
(* revision.                                                               *)
Relists(f, g) ==
  /\ g \in Folder
  /\ g.cursor = f.cursor /\ g.offset = f.offset /\ g.trace = f.trace
  /\ g.stage = f.stage /\ g.filter = f.filter
  /\ f.bumped => g.bumped
  /\ f.unsorted => g.unsorted
  /\ g.items = f.items \/ (g.bumped /\ g.unsorted)

(* New entries, with a new revision if the items are others. *)
LEMMA RevisedFacts ==
  ASSUME NEW f \in Folder, NEW items \in Seq(Files), NEW hidden \in Seq(Files), NEW ticket \in Nat,
         NEW really \in BOOLEAN, ~really => items = f.items
  PROVE  /\ Relists(f, [Revise(f, really) EXCEPT !.items = items, !.hidden = hidden, !.ticket = ticket])
         /\ Relists(f, [Revise(f, really) EXCEPT !.items = items, !.hidden = hidden])
         /\ Revise(f, really).items = f.items /\ Revise(f, really).hidden = f.hidden
         /\ Revise(f, really) \in Folder
<1>1. CASE really
  BY <1>1 DEF Folder, Revise, Relists
<1>2. CASE ~really
  BY <1>2 DEF Folder, Revise, Relists
<1> QED
  BY <1>1, <1>2

(* The fields that matter have these types. *)
LEMMA FolderFacts ==
  ASSUME NEW f \in Folder
  PROVE  /\ f.items \in Seq(Files) /\ f.hidden \in Seq(Files) /\ f.ticket \in Nat
         /\ f.cursor \in Nat /\ f.offset \in Nat /\ f.trace \in Names \cup {None}
         /\ f.stage \in {"Loading", "Loaded"} /\ f.by \in {"name", "time"}
         /\ f.filter \in BOOLEAN /\ f.show \in BOOLEAN /\ f.unsorted \in BOOLEAN /\ f.bumped \in BOOLEAN
         /\ f.stale \in BOOLEAN
         /\ Keys(f.items) \in SUBSET Names /\ Keys(f.hidden) \in SUBSET Names
         /\ Relists(f, f)
<1>1. f.items \in Seq(Files) /\ f.hidden \in Seq(Files)
  BY DEF Folder
<1> QED
  BY <1>1, KeysNames DEF Folder, Relists

(* A full listing lists its files, *)
LEMMA FullFacts ==
  ASSUME NEW f \in Folder, NEW files \in Seq(Files), NEW ticket \in Nat
  PROVE  LET g == UpdateFull(f, files, ticket) IN Relists(f, g) /\ AllKeys(g) = Keys(files)
<1> DEFINE s == Split(f, files)
           really == s.items # <<>> \/ f.items # <<>>
           g == [Revise(f, really) EXCEPT !.items = s.items, !.hidden = s.hidden, !.ticket = ticket]
<1>1. UpdateFull(f, files, ticket) = g
  BY DEF UpdateFull
<1>2. /\ s.items \in Seq(Files) /\ s.hidden \in Seq(Files)
      /\ Keys(s.items) \cup Keys(s.hidden) = Keys(files)
  BY SplitFacts
<1> HIDE DEF s
<1>3. Relists(f, g) /\ Revise(f, really) \in Folder
  BY <1>2, RevisedFacts
<1>4. g.items = s.items /\ g.hidden = s.hidden
  BY <1>3 DEF Folder
<1> QED
  BY <1>1, <1>2, <1>3, <1>4 DEF AllKeys

(* a part of another listing changes nothing, *)
LEMMA PartFacts ==
  ASSUME NEW f \in Folder, NEW files \in Seq(Files), NEW ticket \in Nat
  PROVE  LET g == UpdatePart(f, files, ticket) IN
         /\ Relists(f, g)
         /\ files # <<>> /\ ticket # f.ticket => g = f
<1>1. f.items \in Seq(Files) /\ f.hidden \in Seq(Files) /\ f.ticket \in Nat /\ Relists(f, f)
  BY FolderFacts
<1>2. CASE files = <<>>
  <2> DEFINE really == f.items # <<>>
             none == <<>>
  <2>1. UpdatePart(f, files, ticket)
          = [Revise(f, really) EXCEPT !.items = none, !.hidden = none, !.ticket = ticket]
    BY <1>2 DEF UpdatePart
  <2>2. none \in Seq(Files) /\ really \in BOOLEAN /\ (~really => none = f.items)
    OBVIOUS
  <2> HIDE DEF none, really
  <2>3. Relists(f, [Revise(f, really) EXCEPT !.items = none, !.hidden = none, !.ticket = ticket])
    BY <2>2, RevisedFacts
  <2> QED
    BY <1>2, <2>1, <2>3, Zenon
<1>3. CASE files # <<>> /\ ticket # f.ticket
  BY <1>1, <1>3, Zenon DEF UpdatePart
<1>4. CASE files # <<>> /\ ticket = f.ticket
  <2> DEFINE s == Split(f, files)
             really == s.items # <<>>
             items == f.items \o s.items
             hidden == f.hidden \o s.hidden
  <2>1. s.items \in Seq(Files) /\ s.hidden \in Seq(Files)
    BY SplitFacts
  <2> HIDE DEF s
  <2>2. /\ items \in Seq(Files) /\ hidden \in Seq(Files) /\ really \in BOOLEAN
        /\ ~really => items = f.items
    <3>1. f.items \o <<>> = f.items
      BY <1>1
    <3>2. items \in Seq(Files) /\ hidden \in Seq(Files)
      BY <1>1, <2>1, ConcatKeys
    <3>3. ~really => items = f.items
      BY <3>1, Zenon
    <3> QED
      BY <3>2, <3>3
  <2> HIDE DEF items, hidden, really
  <2>3. Revise(f, really) \in Folder /\ Revise(f, really).items = f.items /\ Revise(f, really).hidden = f.hidden
    BY <1>1, <2>2, RevisedFacts
  <2>4. UpdatePart(f, files, ticket)
          = [Revise(f, really) EXCEPT !.items = @ \o s.items, !.hidden = @ \o s.hidden]
    BY <1>4, Zenon DEF UpdatePart, s, really
  <2>5. UpdatePart(f, files, ticket) = [Revise(f, really) EXCEPT !.items = items, !.hidden = hidden]
    BY <2>3, <2>4, Zenon DEF items, hidden
  <2>6. Relists(f, [Revise(f, really) EXCEPT !.items = items, !.hidden = hidden])
    BY <2>2, RevisedFacts
  <2> QED
    BY <1>4, <2>5, <2>6, Zenon
<1> QED
  BY <1>2, <1>3, <1>4

(* a created file is listed with the others, *)
LEMMA CreateFacts ==
  ASSUME NEW f \in Folder, NEW file \in Files
  PROVE  LET g == UpdateCreate(f, file) IN Relists(f, g) /\ AllKeys(f) \subseteq AllKeys(g)
<1>1. /\ f.items \in Seq(Files) /\ f.hidden \in Seq(Files) /\ Relists(f, f)
  BY FolderFacts
<1> DEFINE more == <<file>>
           items == f.items \o more
           hidden == f.hidden \o more
<1>2. more \in Seq(Files) /\ Append(f.items, file) = items /\ Append(f.hidden, file) = hidden
  BY <1>1
<1> HIDE DEF more
<1>3. /\ items \in Seq(Files) /\ Keys(f.items) \subseteq Keys(items)
      /\ hidden \in Seq(Files) /\ Keys(f.hidden) \subseteq Keys(hidden)
  BY <1>1, <1>2, ConcatKeys
<1> HIDE DEF items, hidden
<1>4. CASE Visible(f, file.key) /\ file.key \notin Keys(f.items)
  <2> DEFINE g == [Revise(f, TRUE) EXCEPT !.items = items]
  <2>1. UpdateCreate(f, file) = [Revise(f, TRUE) EXCEPT !.items = Append(@, file)]
    BY <1>4 DEF UpdateCreate
  <2>2. Revise(f, TRUE) = [f EXCEPT !.unsorted = TRUE, !.bumped = TRUE]
    BY DEF Revise
  <2>3. UpdateCreate(f, file) = g
    BY <2>1, <2>2, <1>2 DEF Folder
  <2>4. Relists(f, g) /\ g.items = items /\ g.hidden = f.hidden
    BY <2>2, <1>3 DEF Folder, Relists
  <2> HIDE DEF g
  <2> QED
    BY <2>3, <2>4, <1>3 DEF AllKeys
<1>5. CASE ~Visible(f, file.key) /\ file.key \notin Keys(f.hidden)
  <2> DEFINE g == [f EXCEPT !.hidden = hidden]
  <2>1. UpdateCreate(f, file) = g
    BY <1>5, <1>2 DEF UpdateCreate, Folder
  <2>2. Relists(f, g) /\ g.items = f.items /\ g.hidden = hidden
    BY <1>3 DEF Folder, Relists
  <2> HIDE DEF g
  <2> QED
    BY <2>1, <2>2, <1>3 DEF AllKeys
<1>6. UpdateCreate(f, file) = f \/ (Visible(f, file.key) /\ file.key \notin Keys(f.items))
      \/ (~Visible(f, file.key) /\ file.key \notin Keys(f.hidden))
  BY DEF UpdateCreate
<1> QED
  BY <1>1, <1>4, <1>5, <1>6

(* Only those that are looked for are taken out. *)
LEMMA WithoutFacts ==
  ASSUME NEW s \in Seq(Files), NEW keys
  PROVE  LET r == Without(s, First(s, keys)) IN
         /\ r \in Seq(Files) /\ Keys(s) \ keys \subseteq Keys(r)
         /\ First(s, keys) = {} => r = s
<1> DEFINE there == First(s, keys)
           rest == (1..Len(s)) \ there
<1>1. /\ Keys(s) = {s[i].key : i \in 1..Len(s)} /\ DOMAIN s = 1..Len(s)
  BY KeysNames
<1>2. there \in SUBSET (1..Len(s)) /\ \A i \in there : s[i].key \in keys
  BY FirstFacts
<1>3. Without(s, there) = Pick(s, rest)
  BY <1>1 DEF Without
<1> HIDE DEF there
<1>4. Pick(s, rest) \in Seq(Files) /\ Keys(Pick(s, rest)) = {s[i].key : i \in rest}
  BY PickKeys
<1>5. Keys(s) \ keys \subseteq {s[i].key : i \in rest}
  BY <1>1, <1>2
<1>6. there = {} => Pick(s, rest) = s
  BY PickAll
<1> QED
  BY <1>3, <1>4, <1>5, <1>6 DEF there

(* and all but the deleted files stay. *)
LEMMA DeleteFacts ==
  ASSUME NEW f \in Folder, NEW keys
  PROVE  LET g == UpdateDelete(f, keys) IN
         /\ Relists(f, g) /\ AllKeys(f) \ keys \subseteq AllKeys(g)
         /\ First(f.items, keys) # {} => g.bumped
<1> DEFINE others == keys \ Keys(f.items)
           really == First(f.items, keys) # {}
           items == Without(f.items, First(f.items, keys))
           hidden == Without(f.hidden, First(f.hidden, others))
           g == [Revise(f, really) EXCEPT !.items = items, !.hidden = hidden]
<1>1. f.items \in Seq(Files) /\ f.hidden \in Seq(Files)
  BY FolderFacts
<1>2. /\ items \in Seq(Files) /\ Keys(f.items) \ keys \subseteq Keys(items)
      /\ ~really => items = f.items
  BY <1>1, WithoutFacts
<1>3. hidden \in Seq(Files) /\ Keys(f.hidden) \ others \subseteq Keys(hidden)
  <2> HIDE DEF others
  <2> QED
    BY <1>1, WithoutFacts
<1>4. UpdateDelete(f, keys) = [Revise(f, really) EXCEPT !.items = Without(@, First(f.items, keys)),
                                 !.hidden = Without(@, First(f.hidden, others))]
  BY DEF UpdateDelete
<1>5. AllKeys(f) \ keys \subseteq Keys(items) \cup Keys(hidden)
  BY <1>2, <1>3 DEF AllKeys
<1>6. Revise(f, really).items = f.items /\ Revise(f, really).hidden = f.hidden
      /\ Revise(f, really) \in Folder /\ (really => Revise(f, really).bumped)
  BY DEF Revise, Folder
<1>7. UpdateDelete(f, keys) = g
  BY <1>4, <1>6, Zenon
<1> HIDE DEF items, hidden, others, really
<1>8. Relists(f, g)
  BY <1>2, <1>3, RevisedFacts DEF really
<1>9. g.items = items /\ g.hidden = hidden /\ (really => g.bumped)
  BY <1>6 DEF Folder
<1> HIDE DEF g
<1> QED
  BY <1>5, <1>7, <1>8, <1>9 DEF AllKeys, really

(* Two changes of the entries are one. *)
LEMMA RelistsTwice ==
  ASSUME NEW f, NEW g, NEW h, Relists(f, g), Relists(g, h)
  PROVE  Relists(f, h)
BY DEF Relists

(* One of the two lists after an upsert: the old files' places are taken,  *)
(* and what is new comes at the end.                                       *)
LEMMA UpsertedList ==
  ASSUME NEW s \in Seq(Files), NEW K \in SUBSET Names, NEW files \in [K -> Files]
  PROVE  LET r == Existing(s, files) \o Rest(s, files) IN
         /\ r \in Seq(Files) /\ Existing(s, files) \in Seq(Files) /\ Rest(s, files) \in Seq(Files)
         /\ \A k \in K : files[k].key \in Keys(r)
         /\ Keys(s) \ K \subseteq Keys(r)
         /\ Existing(s, files) = s /\ Rest(s, files) = <<>> => r = s
<1> DEFINE a == Existing(s, files)
           b == Rest(s, files)
<1>1. /\ a \in Seq(Files) /\ \A k \in Keys(s) \cap K : files[k].key \in Keys(a)
      /\ Keys(s) \ K \subseteq Keys(a)
  BY ExistingFacts
<1>2. b \in Seq(Files) /\ \A k \in K \ Keys(s) : files[k].key \in Keys(b)
  BY RestFacts
<1>3. s \o <<>> = s
  OBVIOUS
<1> HIDE DEF a, b
<1>4. a \o b \in Seq(Files) /\ Keys(a \o b) = Keys(a) \cup Keys(b)
  BY <1>1, <1>2, ConcatKeys
<1>5. a = s /\ b = <<>> => a \o b = s
  BY <1>3, Zenon
<1> QED
  BY <1>1, <1>2, <1>4, <1>5 DEF a, b

(* What is upserted is listed, and the others stay unless they are *)
(* renamed. *)
LEMMA UpsertFacts ==
  ASSUME NEW f \in Folder, NEW K \in SUBSET Names, NEW files \in [K -> Files]
  PROVE  LET g == UpdateUpsert(f, files) IN
         /\ Relists(f, g)
         /\ \A k \in K : files[k].key \in AllKeys(g)
         /\ \A n \in AllKeys(f) \ K :
              (\A k \in K : files[k].key = n => k = n) => n \in AllKeys(g)
<1> DEFINE moved == {files[k].key : k \in {k \in DOMAIN files : files[k].key # k}}
           g == UpdateDelete(f, moved)
           A == {k \in K : Visible(f, files[k].key)}
           B == {k \in K : ~Visible(f, files[k].key)}
           shown == [k \in A |-> files[k]]
           covered == [k \in B |-> files[k]]
           items == Existing(g.items, shown) \o Rest(g.items, shown)
           hidden == Existing(g.hidden, covered) \o Rest(g.hidden, covered)
           really == Existing(g.items, shown) # g.items \/ Rest(g.items, shown) # <<>>
           r == [Revise(g, really) EXCEPT !.items = items, !.hidden = hidden]
<1>1. /\ shown = RestrictDomain(files, LAMBDA k : Visible(f, files[k].key))
      /\ covered = RestrictDomain(files, LAMBDA k : ~Visible(f, files[k].key))
  BY DEF RestrictDomain, Restrict
<1>2. /\ A \in SUBSET Names /\ B \in SUBSET Names /\ A \cup B = K
      /\ shown \in [A -> Files] /\ covered \in [B -> Files]
      /\ \A k \in A : shown[k] = files[k]
      /\ \A k \in B : covered[k] = files[k]
  OBVIOUS
<1>3. \A n : n \in moved => \E k \in K : files[k].key = n /\ k # n
  OBVIOUS
<1>4. UpdateUpsert(f, files)
        = [Revise(g, really) EXCEPT
             !.items = items, !.hidden = Existing(@, covered) \o Rest(@, covered)]
  BY <1>1, Zenon DEF UpdateUpsert
<1> HIDE DEF moved, A, B, shown, covered
<1>5. Relists(f, g) /\ AllKeys(f) \ moved \subseteq AllKeys(g)
  BY DeleteFacts
<1>6. g \in Folder
  BY <1>5 DEF Relists
<1> HIDE DEF g
<1>7. g.items \in Seq(Files) /\ g.hidden \in Seq(Files)
  BY <1>6, FolderFacts
<1>8. /\ items \in Seq(Files)
      /\ \A k \in A : shown[k].key \in Keys(items)
      /\ Keys(g.items) \ A \subseteq Keys(items)
      /\ ~really => items = g.items
  BY <1>2, <1>7, UpsertedList
<1>9. /\ hidden \in Seq(Files)
      /\ \A k \in B : covered[k].key \in Keys(hidden)
      /\ Keys(g.hidden) \ B \subseteq Keys(hidden)
  BY <1>2, <1>7, UpsertedList
<1>10. /\ Revise(g, really).hidden = g.hidden /\ Revise(g, really) \in Folder
  BY <1>6 DEF Revise, Folder
<1>11. UpdateUpsert(f, files) = r
  BY <1>4, <1>10, Zenon
<1>12. really \in BOOLEAN
  OBVIOUS
<1> HIDE DEF items, hidden, really
<1>13. Relists(g, r)
  BY <1>6, <1>8, <1>9, <1>12, RevisedFacts
<1>14. r.items = items /\ r.hidden = hidden
  BY <1>10 DEF Folder
<1> HIDE DEF r
<1>15. AllKeys(r) = Keys(items) \cup Keys(hidden)
  BY <1>14 DEF AllKeys
<1>16. Relists(f, r)
  BY <1>5, <1>13, RelistsTwice
<1>17. \A k \in K : files[k].key \in AllKeys(r)
  BY <1>2, <1>8, <1>9, <1>15
<1>18. ASSUME NEW n \in AllKeys(f) \ K, \A k \in K : files[k].key = n => k = n PROVE n \in AllKeys(r)
  <2>1. n \notin moved
    BY <1>3, <1>18
  <2>2. n \in Keys(g.items) \cup Keys(g.hidden)
    BY <1>5, <2>1 DEF AllKeys
  <2> QED
    BY <1>2, <1>8, <1>9, <1>15, <2>2
<1> QED
  BY <1>11, <1>16, <1>17, <1>18

(* Another order, or showing hidden files, changes none of what is listed. *)
LEMMA SorterFacts ==
  ASSUME NEW f \in Folder, NEW by \in {"name", "time"}
  PROVE  LET g == SetSorter(f, by) IN Relists(f, g) /\ AllKeys(g) = AllKeys(f)
<1>1. CASE f.by = by
  BY <1>1 DEF SetSorter, Revise, Relists, AllKeys, Folder
<1>2. CASE f.by # by
  BY <1>2 DEF SetSorter, Revise, Relists, AllKeys, Folder
<1> QED
  BY <1>1, <1>2

(* From one list to the other no file is lost. *)
LEMMA ShowHiddenFacts ==
  ASSUME NEW f \in Folder, NEW show \in BOOLEAN
  PROVE  LET g == SetShowHidden(f, show) IN Relists(f, g) /\ AllKeys(g) = AllKeys(f)
<1>1. f.items \in Seq(Files) /\ f.hidden \in Seq(Files) /\ Relists(f, f)
  BY FolderFacts
<1>2. CASE f.show = show
  BY <1>1, <1>2 DEF SetShowHidden
<1>3. CASE f.show # show
  <2> DEFINE g == [f EXCEPT !.show = show]
             s == Split(g, IF show THEN f.hidden ELSE f.items)
             items == IF show THEN f.items \o s.items ELSE s.items
             hidden == IF show THEN s.hidden ELSE f.hidden \o s.hidden
             h == [g EXCEPT !.items = items, !.hidden = hidden]
             really == Len(h.items) # Len(f.items)
  <2>1. g \in Folder /\ g.items = f.items /\ g.hidden = f.hidden
    BY DEF Folder
  <2>2. SetShowHidden(f, show) = Revise(h, really)
    BY <1>3, <2>1 DEF SetShowHidden
  <2>3. /\ s.items \in Seq(Files) /\ s.hidden \in Seq(Files)
        /\ Keys(s.items) \cup Keys(s.hidden) = Keys(IF show THEN f.hidden ELSE f.items)
        /\ ~show => (Len(s.items) = Len(f.items) => s.items = f.items)
    <3> HIDE DEF g
    <3>1. CASE show
      BY <1>1, <3>1, SplitFacts
    <3>2. CASE ~show
      BY <1>1, <3>2, SplitFacts
    <3> QED
      BY <3>1, <3>2
  <2> HIDE DEF s
  <2>4. /\ items \in Seq(Files) /\ hidden \in Seq(Files)
        /\ Keys(items) \cup Keys(hidden) = AllKeys(f)
    <3>1. CASE show
      BY <1>1, <2>3, <3>1, ConcatKeys DEF AllKeys
    <3>2. CASE ~show
      BY <1>1, <2>3, <3>2, ConcatKeys DEF AllKeys
    <3> QED
      BY <3>1, <3>2
  <2>5. Len(items) = Len(f.items) => items = f.items
    <3>1. CASE ~show
      BY <2>3, <3>1
    <3>2. CASE show
      <4> SUFFICES ASSUME Len(f.items \o s.items) = Len(f.items)
                   PROVE  f.items \o s.items = f.items
        BY <3>2
      <4>1. Len(s.items) = 0
        <5> DEFINE a == f.items
                   b == s.items
        <5>1. a \in Seq(Files) /\ b \in Seq(Files) /\ Len(a \o b) = Len(a)
          BY <1>1, <2>3
        <5> HIDE DEF a, b
        <5>2. Len(a \o b) = Len(a) + Len(b) /\ Len(a) \in Nat /\ Len(b) \in Nat
          BY <5>1
        <5>3. Len(b) = 0
          BY <5>1, <5>2
        <5> QED
          BY <5>3 DEF b
      <4>2. s.items = <<>>
        BY <2>3, <4>1
      <4>3. f.items \o <<>> = f.items
        BY <1>1
      <4> QED
        BY <4>2, <4>3, Zenon
    <3> QED
      BY <3>1, <3>2
  <2> HIDE DEF items, hidden
  <2>6. h \in Folder /\ h.items = items /\ h.hidden = hidden /\ h.cursor = f.cursor
        /\ h.offset = f.offset /\ h.trace = f.trace /\ h.stage = f.stage /\ h.filter = f.filter
        /\ h.bumped = f.bumped /\ h.unsorted = f.unsorted
    BY <2>1, <2>4 DEF Folder
  <2> HIDE DEF h
  <2>7. CASE really
    BY <2>2, <2>4, <2>6, <2>7, ZenonT(60) DEF Revise, Relists, AllKeys, Folder
  <2>8. CASE ~really
    BY <2>2, <2>4, <2>5, <2>6, <2>8 DEF Revise, Relists, AllKeys
  <2> QED
    BY <2>7, <2>8
<1> QED
  BY <1>2, <1>3

(* The filter leaves the cursor where it is. *)
LEMMA FilterFacts ==
  ASSUME NEW f \in Folder, NEW on \in BOOLEAN
  PROVE  LET g == SetFilter(f, on) IN
         /\ g \in Folder /\ AllKeys(g) = AllKeys(f) /\ g.filter = on
         /\ g.cursor = f.cursor /\ g.offset = f.offset /\ g.trace = f.trace /\ g.stage = f.stage
         /\ g.bumped = f.bumped
<1>1. f.items \in Seq(Files) /\ f.hidden \in Seq(Files) /\ f.by \in {"name", "time"}
  BY FolderFacts
<1>2. CASE f.filter = on
  BY <1>2 DEF SetFilter
<1>3. CASE f.filter # on
  <2> DEFINE g == [f EXCEPT !.filter = on]
             all == f.items \o f.hidden
             s == Split(g, IF on THEN all ELSE f.hidden)
             items == IF on THEN s.items ELSE f.items \o s.items
             shown == IF on \/ s.items # <<>> THEN Sorted(f, items) ELSE items
             h == [g EXCEPT !.hidden = s.hidden, !.items = shown]
  <2>1. SetFilter(f, on) = h
    BY <1>3 DEF SetFilter
  <2>2. all \in Seq(Files) /\ Keys(all) = AllKeys(f)
    BY <1>1, ConcatKeys DEF AllKeys
  <2>3. /\ s.items \in Seq(Files) /\ s.hidden \in Seq(Files)
        /\ Keys(s.items) \cup Keys(s.hidden) = Keys(IF on THEN all ELSE f.hidden)
    <3> HIDE DEF g, all
    <3>1. CASE on
      BY <2>2, <3>1, SplitFacts
    <3>2. CASE ~on
      BY <1>1, <3>2, SplitFacts
    <3> QED
      BY <3>1, <3>2
  <2> HIDE DEF s, all
  <2>4. items \in Seq(Files) /\ Keys(items) \cup Keys(s.hidden) = AllKeys(f)
    <3>1. CASE on
      BY <2>2, <2>3, <3>1
    <3>2. CASE ~on
      BY <1>1, <2>3, <3>2, ConcatKeys DEF AllKeys
    <3> QED
      BY <3>1, <3>2
  <2> HIDE DEF items
  <2>5. shown \in Seq(Files) /\ Keys(shown) = Keys(items)
    BY <1>1, <2>4, SortedFacts
  <2> HIDE DEF shown
  <2> QED
    BY <2>1, <2>3, <2>4, <2>5 DEF AllKeys, Folder
<1> QED
  BY <1>2, <1>3

-----------------------------------------------------------------------------
(* The cursor. *)

(* The cursor is on an item, if there is one, and in what is visible.      *)
InView(f) ==
  /\ IF f.items = <<>> THEN f.cursor = 0 ELSE f.cursor < Len(f.items)
  /\ f.offset <= f.cursor /\ f.cursor < f.offset + Limit

(* From f to g the cursor is set and nothing else. *)
Points(f, g) ==
  /\ g \in Folder /\ InView(g)
  /\ g.items = f.items /\ g.hidden = f.hidden
  /\ g.stage = f.stage /\ g.filter = f.filter
  /\ g.bumped = f.bumped /\ g.unsorted = f.unsorted

(* A pane has a line. *)
LEMMA LimitFacts == Limit \in Nat /\ Limit > 0 /\ Scrolloff \in Nat
<1>1. Limit \in Nat /\ Limit > 0 /\ Scrolloff \in 0..(Limit \div 2)
  BY PaneAssumption
<1>2. Limit \div 2 \in Int
  BY <1>1
<1> QED
  BY <1>1, <1>2

(* Whatever the offset was, squeezing brings the cursor into view.         *)
LEMMA Squeezed ==
  ASSUME NEW len \in Nat, NEW cursor \in Nat, NEW offset \in Nat,
         IF len = 0 THEN cursor = 0 ELSE cursor < len
  PROVE  LET new == IF cursor < Less(Least(offset + Limit, len), Scrolloff)
                    THEN offset
                    ELSE Less(cursor, Limit) + 1 + Scrolloff
             o == Least(Least(Less(len, Limit), new), cursor)
         IN  o \in Nat /\ o <= cursor /\ cursor < o + Limit
BY LimitFacts DEF Less, Least

(* The cursor goes to an item and is in view there, *)
LEMMA ArrowToFacts ==
  ASSUME NEW f \in Folder, NEW new \in Nat, f.items # <<>> => new < Len(f.items)
  PROVE  LET g == ArrowTo(f, new) IN
         /\ Points(f, g) /\ g.trace = f.trace
         /\ f.items # <<>> => g.cursor = new
<1> DEFINE s == IF f.items = <<>> THEN [f EXCEPT !.cursor = 0, !.offset = 0] ELSE Scroll(f, new)
           len == Len(s.items)
           top == IF s.cursor < Less(Least(s.offset + Limit, len), Scrolloff)
                  THEN s.offset
                  ELSE Less(s.cursor, Limit) + 1 + Scrolloff
           o == Least(Least(Less(len, Limit), top), s.cursor)
           g == [s EXCEPT !.offset = o]
<1>1. f.items \in Seq(Files) /\ f.cursor \in Nat /\ f.offset \in Nat /\ Len(f.items) \in Nat
  BY FolderFacts
<1>2. ArrowTo(f, new) = g
  BY DEF ArrowTo, Squeeze
<1>3. \E c \in Nat, p \in Nat :
        /\ s = [f EXCEPT !.cursor = c, !.offset = p]
        /\ IF f.items = <<>> THEN c = 0 ELSE c = new
  <2>1. CASE f.items = <<>>
    BY <2>1
  <2>2. CASE f.items # <<>>
    <3> DEFINE l == Len(f.items)
               down == new >= Less(Least(l, f.offset + Limit), Scrolloff)
               up == new < f.offset + Scrolloff
               p == CASE new > f.cursor /\ down -> Least(Less(l, Limit), f.offset + new - f.cursor)
                      [] new <= f.cursor /\ up  -> Less(f.offset, f.cursor - new)
                      [] OTHER                  -> Least(f.offset, Less(l, 1))
    <3>1. Scroll(f, new) = [f EXCEPT !.cursor = new, !.offset = p]
      BY DEF Scroll, Folder
    <3>2. p \in Nat
      <4>1. CASE new > f.cursor /\ down
        <5>1. p = Least(Less(l, Limit), f.offset + new - f.cursor)
          BY <4>1, <1>1
        <5> HIDE DEF p
        <5> QED
          BY <4>1, <5>1, <1>1, LimitFacts DEF Least, Less
      <4>2. CASE new <= f.cursor /\ up
        <5>1. p = Less(f.offset, f.cursor - new)
          BY <4>2, <1>1
        <5> HIDE DEF p
        <5> QED
          BY <4>2, <5>1, <1>1, LimitFacts DEF Least, Less
      <4>3. CASE ~(new > f.cursor /\ down) /\ ~(new <= f.cursor /\ up)
        <5>1. p = Least(f.offset, Less(l, 1))
          BY <4>3
        <5> HIDE DEF p
        <5> QED
          BY <5>1, <1>1, LimitFacts DEF Least, Less
      <4> QED
        BY <4>1, <4>2, <4>3
    <3> HIDE DEF p
    <3> QED
      BY <2>2, <3>1, <3>2
  <2> QED
    BY <2>1, <2>2
<1> HIDE DEF s
<1>4. PICK c \in Nat, p \in Nat :
        /\ s = [f EXCEPT !.cursor = c, !.offset = p]
        /\ IF f.items = <<>> THEN c = 0 ELSE c = new
  BY <1>3
<1>5. /\ s \in Folder /\ s.items = f.items /\ s.cursor = c /\ s.offset = p
      /\ s.hidden = f.hidden /\ s.stage = f.stage /\ s.filter = f.filter
      /\ s.bumped = f.bumped /\ s.unsorted = f.unsorted /\ s.trace = f.trace
  BY <1>4 DEF Folder
<1>6. len = 0 <=> f.items = <<>>
  BY <1>1, <1>5
<1>7. len \in Nat /\ (IF len = 0 THEN s.cursor = 0 ELSE s.cursor < len)
  BY <1>1, <1>4, <1>5, <1>6
<1>8. o \in Nat /\ o <= s.cursor /\ s.cursor < o + Limit
  <2>1. s.cursor \in Nat /\ s.offset \in Nat
    BY <1>5
  <2> HIDE DEF len
  <2> QED
    BY <1>7, <2>1, Squeezed
<1> HIDE DEF o, len
<1>9. /\ g \in Folder /\ g.items = f.items /\ g.cursor = c /\ g.offset = o
      /\ g.hidden = f.hidden /\ g.stage = f.stage /\ g.filter = f.filter
      /\ g.bumped = f.bumped /\ g.unsorted = f.unsorted /\ g.trace = f.trace
  BY <1>5, <1>8 DEF Folder
<1> HIDE DEF g
<1>10. InView(g)
  BY <1>5, <1>6, <1>7, <1>8, <1>9 DEF InView, len
<1> QED
  BY <1>2, <1>4, <1>9, <1>10 DEF Points

(* by an offset too, which is kept within the items. *)
LEMMA ArrowFacts ==
  ASSUME NEW f \in Folder, NEW n \in Int
  PROVE  LET g == Arrow(f, n) IN
         /\ Points(f, g) /\ g.trace = f.trace
         /\ f.cursor + n \in 0..Len(f.items)-1 => g.cursor = f.cursor + n
<1> DEFINE len == Len(f.items)
           sum == f.cursor + n
           new == CASE sum < 0 -> 0 [] sum >= len -> Less(len, 1) [] OTHER -> sum
<1>1. f.items \in Seq(Files) /\ f.cursor \in Nat /\ len \in Nat /\ sum \in Int
  BY FolderFacts
<1>2. Arrow(f, n) = ArrowTo(f, new)
  BY DEF Arrow
<1>3. f.items # <<>> => len > 0
  BY <1>1
<1>4. new \in Nat /\ (len > 0 => new < len) /\ (sum \in 0..len-1 => new = sum)
  <2> HIDE DEF len, sum
  <2>1. CASE sum < 0
    <3>1. new = 0
      BY <1>1, <2>1
    <3> QED
      BY <1>1, <2>1, <3>1
  <2>2. CASE sum >= len
    <3>1. new = Less(len, 1)
      BY <1>1, <2>2
    <3> QED
      BY <1>1, <2>2, <3>1 DEF Less
  <2>3. CASE ~(sum < 0) /\ ~(sum >= len)
    <3>1. new = sum
      BY <2>3
    <3> QED
      BY <1>1, <2>3, <3>1
  <2> QED
    BY <2>1, <2>2, <2>3
<1> HIDE DEF new
<1>5. /\ Points(f, ArrowTo(f, new)) /\ ArrowTo(f, new).trace = f.trace
      /\ f.items # <<>> => ArrowTo(f, new).cursor = new
  BY <1>3, <1>4, ArrowToFacts
<1>6. sum \in 0..len-1 => f.items # <<>>
  BY <1>1
<1> QED
  BY <1>2, <1>4, <1>5, <1>6

(* The hovered file is an item. *)
LEMMA HoveredFacts ==
  ASSUME NEW f \in Folder
  PROVE  /\ Hovered(f) \in Keys(f.items) \cup {None}
         /\ None \notin Names /\ None \notin Keys(f.items)
         /\ InView(f) /\ f.items # <<>> => Hovered(f) = f.items[f.cursor + 1].key /\ Hovered(f) \in Keys(f.items)
         /\ f.items = <<>> => Hovered(f) = None /\ Keys(f.items) = {}
<1>1. f.items \in Seq(Files) /\ f.cursor \in Nat /\ Len(f.items) \in Nat
  BY FolderFacts
<1>2. /\ Keys(f.items) = {f.items[i].key : i \in 1..Len(f.items)}
      /\ Keys(f.items) \in SUBSET Names
  BY <1>1, KeysNames
<1>3. None \notin Names
  BY PaneAssumption
<1>4. f.cursor < Len(f.items) => f.cursor + 1 \in 1..Len(f.items)
  BY <1>1
<1>5. f.cursor < Len(f.items) => Hovered(f) = f.items[f.cursor + 1].key
  BY DEF Hovered
<1>6. ~(f.cursor < Len(f.items)) => Hovered(f) = None
  BY DEF Hovered
<1>7. f.items = <<>> => Len(f.items) = 0
  BY <1>1
<1>8. f.items = <<>> => Keys(f.items) = {}
  BY <1>2, <1>7
<1>9. f.items = <<>> => ~(f.cursor < Len(f.items))
  BY <1>1, <1>7
<1>10. InView(f) /\ f.items # <<>> => f.cursor < Len(f.items)
  BY DEF InView
<1>11. f.cursor < Len(f.items) => Hovered(f) \in Keys(f.items)
  BY <1>2, <1>4, <1>5
<1> QED
  BY <1>2, <1>3, <1>5, <1>6, <1>8, <1>9, <1>10, <1>11

(* The trace is of the hovered file. *)
LEMMA RetraceFacts ==
  ASSUME NEW f, NEW g, Points(f, g)
  PROVE  LET h == Retrace(g) IN
         /\ Points(f, h) /\ Hovered(h) = Hovered(g)
         /\ h.trace = IF Hovered(g) = None THEN g.trace ELSE Hovered(g)
<1>1. g \in Folder
  BY DEF Points
<1>2. Keys(g.items) \in SUBSET Names
  BY <1>1, FolderFacts
<1>3. Hovered(g) \in Names \cup {None}
  BY <1>1, <1>2, HoveredFacts
<1>4. CASE Hovered(g) = None
  BY <1>4 DEF Retrace
<1>5. CASE Hovered(g) # None
  <2> DEFINE k == Hovered(g)
             h == [g EXCEPT !.trace = k]
  <2>1. Retrace(g) = h
    BY <1>5 DEF Retrace
  <2> HIDE DEF k
  <2>2. /\ h \in Folder /\ h.items = g.items /\ h.hidden = g.hidden /\ h.stage = g.stage
        /\ h.filter = g.filter /\ h.bumped = g.bumped /\ h.unsorted = g.unsorted
        /\ h.cursor = g.cursor /\ h.offset = g.offset /\ h.trace = k
    BY <1>1, <1>3, <1>5 DEF Folder, k
  <2> HIDE DEF h
  <2>3. Points(f, h)
    BY <2>2 DEF Points, InView
  <2>4. Hovered(h) = Hovered(g)
    BY <2>2 DEF Hovered
  <2> QED
    BY <1>5, <2>1, <2>2, <2>3, <2>4 DEF k
<1> QED
  BY <1>4, <1>5

(* A listed file is hovered when it is asked for; otherwise the trace *)
(* follows the cursor. *)
LEMMA HoverKeyFacts ==
  ASSUME NEW f \in Folder, NEW k \in Names
  PROVE  LET g == HoverKey(f, k) IN
         /\ Points(f, g)
         /\ k \in Keys(f.items) => Hovered(g) = k
         /\ k \notin Keys(f.items) => f.items = <<>> \/ g.trace = Hovered(g)
<1> DEFINE at == SelectInSeq(f.items, LAMBDA x : x.key = k)
           I == {i \in 1..Len(f.items) : f.items[i].key = k}
<1>1. f.items \in Seq(Files) /\ f.cursor \in Nat /\ Len(f.items) \in Nat
  BY FolderFacts
<1>2. Keys(f.items) = {f.items[i].key : i \in 1..Len(f.items)}
  BY <1>1, KeysNames
<1>3. at = IF I # {} THEN CHOOSE i \in I : \A j \in I : i <= j ELSE 0
  BY DEF SelectInSeq, Min
<1>4. I = {} <=> k \notin Keys(f.items)
  BY <1>2
<1>5. I # {} => at \in I
  <2> SUFFICES ASSUME I # {} PROVE at \in I
    OBVIOUS
  <2>1. I \in SUBSET Nat
    BY <1>1
  <2> HIDE DEF I
  <2>2. \E i \in I : \A j \in I : i <= j
    BY <2>1, LeastNatural
  <2> HIDE DEF at
  <2> QED
    BY <1>3, <2>2
<1>6. k # None
  BY PaneAssumption
<1>7. CASE Hovered(f) = k
  <2>1. HoverKey(f, k) = Arrow(f, 0)
    BY <1>7 DEF HoverKey
  <2>2. f.cursor < Len(f.items) /\ k \in Keys(f.items)
    <3>1. f.cursor < Len(f.items)
      BY <1>6, <1>7 DEF Hovered
    <3>2. k \in Keys(f.items)
      BY <1>6, <1>7, HoveredFacts
    <3> QED
      BY <3>1, <3>2
  <2>3. f.cursor + 0 = f.cursor /\ f.cursor + 0 \in 0..Len(f.items)-1
    BY <1>1, <2>2
  <2>4. Points(f, Arrow(f, 0)) /\ Arrow(f, 0).cursor = f.cursor
    BY <2>3, ArrowFacts
  <2>5. Hovered(Arrow(f, 0)) = k
    BY <1>7, <2>4 DEF Hovered, Points
  <2> QED
    BY <2>1, <2>2, <2>4, <2>5
<1>8. CASE Hovered(f) # k /\ I = {}
  <2>1. at = 0
    BY <1>3, <1>8
  <2>2. HoverKey(f, k) = Retrace(Arrow(f, 0))
    BY <1>8, <2>1 DEF HoverKey
  <2> DEFINE g == Arrow(f, 0)
  <2>3. Points(f, g)
    BY ArrowFacts
  <2> HIDE DEF g
  <2>4. /\ Points(f, Retrace(g)) /\ Hovered(Retrace(g)) = Hovered(g)
        /\ Hovered(g) # None => Retrace(g).trace = Hovered(g)
    BY <2>3, RetraceFacts
  <2>5. f.items # <<>> => Hovered(g) # None
    BY <2>3, HoveredFacts DEF Points
  <2> QED
    BY <1>4, <1>8, <2>2, <2>4, <2>5 DEF g
<1>9. CASE Hovered(f) # k /\ I # {}
  <2>1. at \in 1..Len(f.items) /\ f.items[at].key = k
    BY <1>5, <1>9
  <2> HIDE DEF at
  <2> DEFINE n == at - 1 - f.cursor
             g == Arrow(f, n)
  <2>2. n \in Int /\ f.cursor + n = at - 1 /\ f.cursor + n \in 0..Len(f.items)-1 /\ at # 0
    BY <1>1, <2>1
  <2>3. HoverKey(f, k) = Retrace(g)
    BY <1>9, <2>2 DEF HoverKey, at
  <2> HIDE DEF n
  <2>4. Points(f, g) /\ g.cursor = at - 1
    BY <2>2, ArrowFacts
  <2> HIDE DEF g
  <2>5. Points(f, Retrace(g)) /\ Hovered(Retrace(g)) = Hovered(g)
    BY <2>4, RetraceFacts
  <2>6. Hovered(g) = k
    <3>1. g.items = f.items /\ at - 1 < Len(f.items) /\ (at - 1) + 1 = at
      BY <1>1, <2>1, <2>4 DEF Points
    <3> QED
      BY <2>1, <2>4, <3>1 DEF Hovered
  <2>7. k \in Keys(f.items)
    BY <1>4, <1>9
  <2> QED
    BY <2>3, <2>5, <2>6, <2>7
<1> QED
  BY <1>7, <1>8, <1>9

(* The cursor follows its file in a folder of a tab that is in `at`.       *)
FollowedIn(f, at) ==
  /\ InView(f)
  /\ LET k == IF at = Home THEN f.trace ELSE at
     IN  k \in Keys(f.items) => Hovered(f) = k

(* After mgr:hover the cursor follows, *)
LEMMA HoverFacts ==
  ASSUME NEW f \in Folder, NEW at \in Spots
  PROVE  LET g == Hover(f, at) IN Points(f, g) /\ FollowedIn(g, at)
<1>1. /\ None \notin Names /\ f.trace \in Names \cup {None} /\ Keys(f.items) \in SUBSET Names
      /\ Home \notin Names /\ Dirs \subseteq Names
  BY FolderFacts, PaneAssumption, TabAssumption
<1>2. CASE at # Home
  <2>1. at \in Names /\ at # None
    BY <1>1, <1>2 DEF Spots
  <2>2. Hover(f, at) = HoverKey(f, at)
    BY <1>2, <2>1 DEF Hover, Repos
  <2> DEFINE g == HoverKey(f, at)
  <2>3. Points(f, g) /\ (at \in Keys(f.items) => Hovered(g) = at)
    BY <2>1, HoverKeyFacts
  <2> HIDE DEF g
  <2>4. FollowedIn(g, at)
    BY <1>2, <2>3 DEF Points, FollowedIn
  <2> QED
    BY <2>2, <2>3, <2>4 DEF g
<1>3. CASE at = Home /\ f.trace # None
  <2> DEFINE k == f.trace
             h == HoverKey(f, k)
             g == [h EXCEPT !.trace = k]
  <2>1. k \in Names
    BY <1>1, <1>3
  <2>2. Hover(f, at) = g
    BY <1>3 DEF Hover, Repos
  <2> HIDE DEF k
  <2>3. Points(f, h) /\ (k \in Keys(f.items) => Hovered(h) = k)
    BY <2>1, HoverKeyFacts
  <2> HIDE DEF h
  <2>4. /\ g \in Folder /\ g.items = h.items /\ g.hidden = h.hidden /\ g.stage = h.stage
        /\ g.filter = h.filter /\ g.bumped = h.bumped /\ g.unsorted = h.unsorted
        /\ g.cursor = h.cursor /\ g.offset = h.offset /\ g.trace = k
    BY <2>1, <2>3 DEF Points, Folder
  <2> HIDE DEF g
  <2>5. Points(f, g)
    BY <2>3, <2>4 DEF Points, InView
  <2>6. Hovered(g) = Hovered(h)
    BY <2>4 DEF Hovered
  <2>7. FollowedIn(g, at)
    BY <1>3, <2>3, <2>4, <2>5, <2>6 DEF Points, FollowedIn
  <2> QED
    BY <2>2, <2>5, <2>7
<1>4. CASE at = Home /\ f.trace = None
  <2> DEFINE g == Arrow(f, 0)
  <2>1. Hover(f, at) = g
    BY <1>4 DEF Hover, Repos
  <2>2. Points(f, g) /\ g.trace = None
    BY <1>4, ArrowFacts
  <2> HIDE DEF g
  <2>3. FollowedIn(g, at)
    BY <1>1, <1>4, <2>2 DEF Points, FollowedIn
  <2> QED
    BY <2>1, <2>2, <2>3
<1> QED
  BY <1>2, <1>3, <1>4

(* and after another file is hovered that is the one it follows. *)
LEMMA HoverOnFacts ==
  ASSUME NEW f \in Folder, NEW k \in Names
  PROVE  LET g == HoverOn(f, k) IN Points(f, g) /\ FollowedIn(g, Home)
<1> DEFINE g == HoverKey(f, k)
           h == [g EXCEPT !.trace = k]
<1>1. k # None
  BY PaneAssumption
<1>2. Repos(f, k) = g
  BY <1>1 DEF Repos
<1>3. /\ Points(f, g) /\ (k \in Keys(f.items) => Hovered(g) = k)
      /\ k \notin Keys(f.items) => f.items = <<>> \/ g.trace = Hovered(g)
  BY HoverKeyFacts
<1>4. HoverOn(f, k) = IF Hovered(g) = k THEN h ELSE g
  BY <1>2 DEF HoverOn
<1> HIDE DEF g
<1>5. CASE Hovered(g) = k
  <2>1. /\ h \in Folder /\ h.items = g.items /\ h.hidden = g.hidden /\ h.stage = g.stage
        /\ h.filter = g.filter /\ h.bumped = g.bumped /\ h.unsorted = g.unsorted
        /\ h.cursor = g.cursor /\ h.offset = g.offset /\ h.trace = k
    BY <1>3 DEF Points, Folder
  <2> HIDE DEF h
  <2>2. Points(f, h)
    BY <1>3, <2>1 DEF Points, InView
  <2>3. Hovered(h) = k
    BY <1>5, <2>1 DEF Hovered
  <2>4. FollowedIn(h, Home)
    BY <2>1, <2>2, <2>3 DEF Points, FollowedIn
  <2> QED
    BY <1>4, <1>5, <2>2, <2>4
<1>6. CASE Hovered(g) # k
  <2>1. g.items = f.items /\ InView(g)
    BY <1>3 DEF Points
  <2>2. f.items = <<>> \/ g.trace = Hovered(g)
    BY <1>3, <1>6
  <2>3. f.items = <<>> => Keys(f.items) = {}
    BY HoveredFacts
  <2>4. FollowedIn(g, Home)
    BY <2>1, <2>2, <2>3 DEF FollowedIn
  <2> QED
    BY <1>3, <1>4, <1>6, <2>4
<1> QED
  BY <1>5, <1>6

(* From f to g the folder is turned to the user's preferences: its files   *)
(* stay, and the cursor follows or all is as it was.                       *)
Turns(f, g, at) ==
  /\ g \in Folder /\ InView(g) /\ AllKeys(g) = AllKeys(f)
  /\ g.stage = f.stage /\ g.filter = f.filter
  /\ f.bumped => g.bumped
  /\ \/ FollowedIn(g, at)
     \/ g.items = f.items /\ g.cursor = f.cursor /\ g.trace = f.trace

(* Two turns are one. *)
LEMMA TurnsTwice ==
  ASSUME NEW f, NEW g, NEW h, NEW at, Turns(f, g, at), Turns(g, h, at)
  PROVE  Turns(f, h, at)
<1>1. CASE FollowedIn(g, at) /\ h.items = g.items /\ h.cursor = g.cursor /\ h.trace = g.trace
  <2>1. Hovered(h) = Hovered(g)
    BY <1>1 DEF Hovered
  <2> QED
    BY <1>1, <2>1 DEF Turns, FollowedIn
<1> QED
  BY <1>1 DEF Turns

(* Catching up with a new revision sorts and hovers. *)
LEMMA CatchupFacts ==
  ASSUME NEW f \in Folder, NEW g \in Folder, NEW at \in Spots,
         InView(f), Relists(f, g), AllKeys(g) = AllKeys(f)
  PROVE  Turns(f, Catchup(g, at), at)
<1>1. CASE g.unsorted
  <2> DEFINE items == Sorted(g, g.items)
             h == [g EXCEPT !.items = items, !.unsorted = FALSE]
             r == Hover(h, at)
  <2>1. Catchup(g, at) = r
    BY <1>1 DEF Catchup
  <2>2. items \in Seq(Files) /\ Keys(items) = Keys(g.items)
    BY FolderFacts, SortedFacts
  <2> HIDE DEF items
  <2>3. /\ h \in Folder /\ h.items = items /\ h.hidden = g.hidden /\ h.stage = g.stage
        /\ h.filter = g.filter /\ h.bumped = g.bumped
    BY <2>2 DEF Folder
  <2> HIDE DEF h
  <2>4. Points(h, r) /\ FollowedIn(r, at)
    BY <2>3, HoverFacts
  <2> HIDE DEF r
  <2>5. AllKeys(r) = AllKeys(f)
    BY <2>2, <2>3, <2>4 DEF Points, AllKeys
  <2> QED
    BY <2>1, <2>3, <2>4, <2>5 DEF Points, Turns, Relists
<1>2. CASE ~g.unsorted
  <2>1. Catchup(g, at) = g
    BY <1>2 DEF Catchup
  <2>2. g.items = f.items /\ g.cursor = f.cursor /\ g.offset = f.offset /\ g.trace = f.trace
    BY <1>2 DEF Relists
  <2>3. InView(g)
    BY <2>2 DEF InView
  <2> QED
    BY <2>1, <2>2, <2>3 DEF Turns, Relists
<1> QED
  BY <1>1, <1>2

(* Each of the two preferences turns the folder. *)
LEMMA PreferFacts ==
  ASSUME NEW f \in Folder, NEW at \in Spots, InView(f),
         NEW show \in BOOLEAN, NEW by \in {"name", "time"}
  PROVE  /\ Turns(f, Hide(f, at, show), at)
         /\ Turns(f, Sort(f, at, by), at)
<1>1. Turns(f, f, at)
  BY DEF Turns
<1>2. Turns(f, Catchup(SetShowHidden(f, show), at), at)
  <2>1. /\ Relists(f, SetShowHidden(f, show)) /\ AllKeys(SetShowHidden(f, show)) = AllKeys(f)
    BY ShowHiddenFacts
  <2> QED
    BY <2>1, CatchupFacts DEF Relists
<1>3. Turns(f, Catchup(SetSorter(f, by), at), at)
  <2>1. /\ Relists(f, SetSorter(f, by)) /\ AllKeys(SetSorter(f, by)) = AllKeys(f)
    BY SorterFacts
  <2> QED
    BY <2>1, CatchupFacts DEF Relists
<1> QED
  BY <1>1, <1>2, <1>3 DEF Hide, Sort

(* What Folder::update makes of a folder: its cursor is in view, and where *)
(* it was unless there is a new revision.                                  *)
Updates(f, h) ==
  /\ h \in Folder /\ InView(h) /\ h.filter = f.filter
  /\ h.bumped \/ (h.items = f.items /\ h.cursor = f.cursor)

(* The last part of an update, when the entries have changed from f to g.  *)
LEMMA UpdatedFacts ==
  ASSUME NEW f \in Folder, InView(f), NEW stage \in {"Loading", "Loaded"}, NEW g,
         Relists([f EXCEPT !.stage = stage], g),
         NEW n \in Nat, n = 0 \/ g.bumped
  PROVE  LET h == IF g.items = <<>> /\ g.stage # "Loading" THEN [g EXCEPT !.trace = None] ELSE g
             r == Arrow(h, -n)
         IN  Updates(f, r) /\ r.stage = stage /\ AllKeys(r) = AllKeys(g)
<1> DEFINE s == [f EXCEPT !.stage = stage]
           h == IF g.items = <<>> /\ g.stage # "Loading" THEN [g EXCEPT !.trace = None] ELSE g
           r == Arrow(h, -n)
<1>1. /\ s.items = f.items /\ s.cursor = f.cursor /\ s.offset = f.offset /\ s.filter = f.filter
      /\ s.stage = stage
  BY DEF Folder
<1> HIDE DEF s
<1>2. /\ g \in Folder /\ g.cursor = f.cursor /\ g.offset = f.offset /\ g.filter = f.filter
      /\ g.stage = stage /\ (g.items = f.items \/ g.bumped)
  BY <1>1 DEF Relists, s
<1>3. /\ h \in Folder /\ h.items = g.items /\ h.hidden = g.hidden /\ h.stage = g.stage
      /\ h.filter = g.filter /\ h.bumped = g.bumped /\ h.cursor = g.cursor /\ h.offset = g.offset
  BY <1>2 DEF Folder
<1> HIDE DEF h
<1>4. -n \in Int
  OBVIOUS
<1>5. Points(h, r) /\ (h.cursor + -n \in 0..Len(h.items)-1 => r.cursor = h.cursor + -n)
  BY <1>3, <1>4, ArrowFacts
<1> HIDE DEF r
<1>6. AllKeys(r) = AllKeys(g) /\ r.stage = stage /\ r \in Folder /\ InView(r) /\ r.filter = f.filter
      /\ r.bumped = g.bumped /\ r.items = g.items
  BY <1>2, <1>3, <1>5 DEF Points, AllKeys
<1>7. ASSUME ~g.bumped PROVE r.items = f.items /\ r.cursor = f.cursor
  <2>1. n = 0 /\ r.items = f.items /\ h.items = f.items /\ h.cursor = f.cursor
    BY <1>2, <1>3, <1>6, <1>7
  <2>2. f.items \in Seq(Files) /\ Len(f.items) \in Nat /\ f.cursor \in Nat
    BY FolderFacts
  <2>3. CASE f.items = <<>>
    BY <1>6, <2>1, <2>3 DEF InView
  <2>4. CASE f.items # <<>>
    <3>1. f.cursor < Len(f.items)
      BY <2>4 DEF InView
    <3>2. h.cursor + -n = f.cursor /\ h.cursor + -n \in 0..Len(h.items)-1
      BY <2>1, <2>2, <3>1
    <3> QED
      BY <1>5, <2>1, <3>2
  <2> QED
    BY <2>3, <2>4
<1> QED
  BY <1>6, <1>7 DEF Updates, h, r

(* Deleting above the cursor is deleting. *)
LEMMA AboveFacts ==
  ASSUME NEW f \in Folder, NEW keys
  PROVE  LET n == Cardinality({i \in First(f.items, keys) : i <= f.cursor})
         IN  n \in Nat /\ (n = 0 \/ First(f.items, keys) # {})
<1> DEFINE above == {i \in First(f.items, keys) : i <= f.cursor}
<1>1. f.items \in Seq(Files) /\ Len(f.items) \in Nat
  BY FolderFacts
<1>2. above \in SUBSET (1..Len(f.items))
  BY <1>1, FirstFacts
<1>3. IsFiniteSet(1..Len(f.items))
  BY <1>1, FS_Interval
<1>4. First(f.items, keys) = {} => above = {}
  OBVIOUS
<1> HIDE DEF above
<1>5. Cardinality(above) \in Nat
  BY <1>2, <1>3, FS_Subset, FS_CardinalityType
<1>6. First(f.items, keys) = {} => Cardinality(above) = 0
  BY <1>4, FS_EmptySet
<1> QED
  BY <1>5, <1>6 DEF above
(* An operation, by what it does to the entries.  n is how far what is     *)
(* deleted moves the cursor up.                                            *)
LEMMA UpdateParts ==
  ASSUME NEW f \in Folder, InView(f), NEW e
  PROVE  LET s == [f EXCEPT !.stage = Stage(f, e)]
             Done(g, n) == Arrow(IF g.items = <<>> /\ g.stage # "Loading"
                                 THEN [g EXCEPT !.trace = None] ELSE g, -n)
             n == Cardinality({i \in First(f.items, e.keys) : i <= f.cursor})
         IN  /\ s \in Folder /\ Stage(f, e) \in {"Loading", "Loaded"} /\ Relists(s, s)
             /\ AllKeys(s) = AllKeys(f) /\ s.items = f.items /\ s.ticket = f.ticket
             /\ e.op = "Full"   => Update(f, e) = Done(UpdateFull(s, e.files, e.ticket), 0)
             /\ e.op = "Part" /\ ~Late(f, e.ticket)
                                => Update(f, e) = Done(UpdatePart(s, e.files, e.ticket), 0)
             /\ e.op = "Done" /\ ~Late(f, e.ticket) => Update(f, e) = Done(s, 0)
             /\ e.op \in {"Part", "Done"} /\ Late(f, e.ticket) => Update(f, e) = f
             /\ e.op = "Create" => Update(f, e) = Done(UpdateCreate(s, e.file), 0)
             /\ e.op = "Delete" => Update(f, e) = Done(UpdateDelete(s, e.keys), n)
             /\ e.op = "Upsert" => Update(f, e) = Done(UpdateUpsert(s, e.files), 0)
<1> DEFINE s == [f EXCEPT !.stage = Stage(f, e)]
<1>1. Stage(f, e) \in {"Loading", "Loaded"}
  BY FolderFacts DEF Stage
<1>2. s \in Folder /\ AllKeys(s) = AllKeys(f) /\ s.items = f.items /\ s.ticket = f.ticket
  BY <1>1 DEF Folder, AllKeys
<1>3. Relists(s, s)
  BY <1>2, FolderFacts
<1>4. Cardinality({}) = 0
  BY FS_EmptySet
<1>5. CASE e.op = "Full"
  BY <1>1, <1>2, <1>3, <1>4, <1>5 DEF Update
<1>6. CASE e.op = "Part"
  BY <1>1, <1>2, <1>3, <1>4, <1>6 DEF Update
<1>7. CASE e.op = "Done"
  BY <1>1, <1>2, <1>3, <1>4, <1>7 DEF Update
<1>8. CASE e.op = "Create"
  BY <1>1, <1>2, <1>3, <1>4, <1>8 DEF Update
<1>9. CASE e.op = "Delete"
  BY <1>1, <1>2, <1>3, <1>4, <1>9 DEF Update
<1>10. CASE e.op = "Upsert"
  BY <1>1, <1>2, <1>3, <1>4, <1>10 DEF Update
<1> QED
  BY <1>1, <1>2, <1>3, <1>5, <1>6, <1>7, <1>8, <1>9, <1>10
(* What each operation does to what is listed and to the stage.            *)
LEMMA UpdateFacts ==
  ASSUME NEW f \in Folder, InView(f), NEW e, NEW K \in SUBSET Names
  PROVE  LET h == Update(f, e) IN
         /\ e.op = "Full" /\ e.files \in Seq(Files) /\ e.ticket \in Nat =>
              Updates(f, h) /\ AllKeys(h) = Keys(e.files)
         /\ e.op = "Part" /\ e.files \in Seq(Files) /\ e.ticket \in Nat =>
              Updates(f, h) /\ (h.stage = "Loading" \/ (h.stage = f.stage /\ AllKeys(h) = AllKeys(f)))
         /\ e.op = "Done" =>
              /\ Updates(f, h) /\ AllKeys(h) = AllKeys(f)
              /\ h.stage = f.stage \/ (f.stage = "Loading" /\ e.ticket = f.ticket)
         /\ e.op = "Create" /\ e.file \in Files =>
              Updates(f, h) /\ h.stage = f.stage /\ AllKeys(f) \subseteq AllKeys(h)
         /\ e.op = "Delete" =>
              Updates(f, h) /\ h.stage = f.stage /\ AllKeys(f) \ e.keys \subseteq AllKeys(h)
         /\ e.op = "Upsert" /\ e.files \in [K -> Files] =>
              /\ Updates(f, h) /\ h.stage = f.stage
              /\ \A k \in K : e.files[k].key \in AllKeys(h)
              /\ \A n \in AllKeys(f) \ K :
                   (\A k \in K : e.files[k].key = n => k = n) => n \in AllKeys(h)
<1> DEFINE stage == Stage(f, e)
           s == [f EXCEPT !.stage = stage]
           Above == Cardinality({i \in First(f.items, e.keys) : i <= f.cursor})
           Fin(g, n) == Arrow(IF g.items = <<>> /\ g.stage # "Loading"
                               THEN [g EXCEPT !.trace = None] ELSE g, -n)
           h == Update(f, e)
<1>1. /\ s \in Folder /\ stage \in {"Loading", "Loaded"} /\ Relists(s, s)
      /\ AllKeys(s) = AllKeys(f) /\ s.items = f.items /\ s.ticket = f.ticket
      /\ e.op = "Full"   => h = Fin(UpdateFull(s, e.files, e.ticket), 0)
      /\ e.op = "Part" /\ ~Late(f, e.ticket)
                         => h = Fin(UpdatePart(s, e.files, e.ticket), 0)
      /\ e.op = "Done" /\ ~Late(f, e.ticket) => h = Fin(s, 0)
      /\ e.op \in {"Part", "Done"} /\ Late(f, e.ticket) => h = f
      /\ e.op = "Create" => h = Fin(UpdateCreate(s, e.file), 0)
      /\ e.op = "Delete" => h = Fin(UpdateDelete(s, e.keys), Above)
      /\ e.op = "Upsert" => h = Fin(UpdateUpsert(s, e.files), 0)
  BY UpdateParts
<1> HIDE DEF h
<1>2. ASSUME NEW g, Relists(s, g), NEW n \in Nat, n = 0 \/ g.bumped
      PROVE  Updates(f, Fin(g, n)) /\ Fin(g, n).stage = stage /\ AllKeys(Fin(g, n)) = AllKeys(g)
  <2> HIDE DEF stage
  <2>1. stage \in {"Loading", "Loaded"}
    BY <1>1
  <2> QED
    BY <1>2, <2>1, UpdatedFacts, ZenonT(60)
<1> HIDE DEF s, Fin
<1>3. CASE e.op = "Full"
  <2> SUFFICES ASSUME e.files \in Seq(Files), e.ticket \in Nat
               PROVE  Updates(f, h) /\ AllKeys(h) = Keys(e.files)
    BY <1>3 DEF h
  <2> DEFINE g == UpdateFull(s, e.files, e.ticket)
  <2>1. Relists(s, g) /\ AllKeys(g) = Keys(e.files)
    BY <1>1, FullFacts
  <2> HIDE DEF g
  <2>2. Updates(f, Fin(g, 0)) /\ AllKeys(Fin(g, 0)) = AllKeys(g)
    BY <2>1, <1>2
  <2> QED
    BY <1>1, <1>3, <2>1, <2>2 DEF g
<1>4. CASE e.op = "Part"
  <2> SUFFICES ASSUME e.files \in Seq(Files), e.ticket \in Nat
               PROVE  /\ Updates(f, h)
                      /\ h.stage = "Loading" \/ (h.stage = f.stage /\ AllKeys(h) = AllKeys(f))
    BY <1>4 DEF h
  <2> DEFINE g == UpdatePart(s, e.files, e.ticket)
  <2>1. CASE Late(f, e.ticket)
    <3>1. h = f
      BY <1>1, <1>4, <2>1
    <3> QED
      BY <3>1 DEF Updates
  <2>2. CASE ~Late(f, e.ticket)
    <3>1. Relists(s, g) /\ (e.files # <<>> /\ e.ticket # f.ticket => g = s)
      BY <1>1, PartFacts
    <3> HIDE DEF g
    <3>2. Updates(f, Fin(g, 0)) /\ AllKeys(Fin(g, 0)) = AllKeys(g) /\ Fin(g, 0).stage = stage
      BY <3>1, <1>2
    <3>3. stage = "Loading" \/ (stage = f.stage /\ e.files # <<>> /\ e.ticket # f.ticket)
      BY <1>4 DEF Stage
    <3>4. h = Fin(g, 0)
      BY <1>1, <1>4, <2>2 DEF g
    <3> HIDE DEF stage
    <3>5. CASE stage = "Loading"
      BY <3>2, <3>4, <3>5
    <3>6. CASE stage = f.stage /\ e.files # <<>> /\ e.ticket # f.ticket
      <4>1. AllKeys(g) = AllKeys(f)
        BY <1>1, <3>1, <3>6
      <4> QED
        BY <3>2, <3>4, <3>6, <4>1
    <3> QED
      BY <3>3, <3>5, <3>6
  <2> QED
    BY <2>1, <2>2
<1>5. CASE e.op = "Done"
  <2> SUFFICES /\ Updates(f, h) /\ AllKeys(h) = AllKeys(f)
               /\ h.stage = f.stage \/ (f.stage = "Loading" /\ e.ticket = f.ticket)
    BY <1>5 DEF h
  <2>1. CASE Late(f, e.ticket)
    <3>1. h = f
      BY <1>1, <1>5, <2>1
    <3> QED
      BY <3>1 DEF Updates
  <2>2. CASE ~Late(f, e.ticket)
    <3>1. Updates(f, Fin(s, 0)) /\ AllKeys(Fin(s, 0)) = AllKeys(s) /\ Fin(s, 0).stage = stage
      BY <1>1, <1>2
    <3>2. h = Fin(s, 0)
      BY <1>1, <1>5, <2>2
    <3>3. stage = f.stage \/ (stage = "Loaded" /\ e.ticket = f.ticket)
      BY <1>5 DEF Stage
    <3>4. f.stage \in {"Loading", "Loaded"}
      BY FolderFacts
    <3> HIDE DEF stage
    <3> QED
      BY <1>1, <3>1, <3>2, <3>3, <3>4
  <2> QED
    BY <2>1, <2>2
<1>6. CASE e.op = "Create"
  <2> SUFFICES ASSUME e.file \in Files
               PROVE  Updates(f, h) /\ h.stage = f.stage /\ AllKeys(f) \subseteq AllKeys(h)
    BY <1>6 DEF h
  <2> DEFINE g == UpdateCreate(s, e.file)
  <2>1. Relists(s, g) /\ AllKeys(s) \subseteq AllKeys(g)
    BY <1>1, CreateFacts
  <2> HIDE DEF g
  <2>2. Updates(f, Fin(g, 0)) /\ AllKeys(Fin(g, 0)) = AllKeys(g) /\ Fin(g, 0).stage = stage
    BY <2>1, <1>2
  <2>3. stage = f.stage
    BY <1>6 DEF Stage
  <2> HIDE DEF stage
  <2> QED
    BY <1>1, <1>6, <2>1, <2>2, <2>3 DEF g
<1>7. CASE e.op = "Delete"
  <2> SUFFICES Updates(f, h) /\ h.stage = f.stage /\ AllKeys(f) \ e.keys \subseteq AllKeys(h)
    BY <1>7 DEF h
  <2> DEFINE g == UpdateDelete(s, e.keys)
  <2>1. /\ Relists(s, g) /\ AllKeys(s) \ e.keys \subseteq AllKeys(g)
        /\ First(s.items, e.keys) # {} => g.bumped
    BY <1>1, DeleteFacts
  <2> HIDE DEF g
  <2>2. Above \in Nat /\ (Above = 0 \/ First(s.items, e.keys) # {})
    BY <1>1, AboveFacts
  <2> HIDE DEF Above
  <2>3. Updates(f, Fin(g, Above)) /\ AllKeys(Fin(g, Above)) = AllKeys(g) /\ Fin(g, Above).stage = stage
    BY <2>1, <2>2, <1>2
  <2>4. stage = f.stage
    BY <1>7 DEF Stage
  <2> HIDE DEF stage
  <2> QED
    BY <1>1, <1>7, <2>1, <2>3, <2>4 DEF g
<1>8. CASE e.op = "Upsert"
  <2> SUFFICES ASSUME e.files \in [K -> Files]
               PROVE  /\ Updates(f, h) /\ h.stage = f.stage
                      /\ \A k \in K : e.files[k].key \in AllKeys(h)
                      /\ \A n \in AllKeys(f) \ K :
                           (\A k \in K : e.files[k].key = n => k = n) => n \in AllKeys(h)
    BY <1>8 DEF h
  <2> DEFINE g == UpdateUpsert(s, e.files)
  <2>1. /\ Relists(s, g)
        /\ \A k \in K : e.files[k].key \in AllKeys(g)
        /\ \A n \in AllKeys(s) \ K :
             (\A k \in K : e.files[k].key = n => k = n) => n \in AllKeys(g)
    BY <1>1, UpsertFacts
  <2> HIDE DEF g
  <2>2. Updates(f, Fin(g, 0)) /\ AllKeys(Fin(g, 0)) = AllKeys(g) /\ Fin(g, 0).stage = stage
    BY <2>1, <1>2
  <2>3. stage = f.stage
    BY <1>8 DEF Stage
  <2> HIDE DEF stage
  <2>4. h = Fin(g, 0)
    BY <1>1, <1>8 DEF g
  <2> QED
    BY <1>1, <2>1, <2>2, <2>3, <2>4
<1> QED
  BY <1>3, <1>4, <1>5, <1>6, <1>7, <1>8 DEF h
-----------------------------------------------------------------------------
(* The parts of the handlers. *)

PrefOK == pref \in [show : BOOLEAN, by : {"name", "time"}]

(* A handler has come to rest with g, in a tab that is in `at`.            *)
Rests(g, at) == g \in Folder /\ ~g.bumped /\ FollowedIn(g, at)

(* At the end of a handler the revision has not risen any longer. *)
LEMMA CalmFacts ==
  ASSUME NEW f \in Folder, InView(f), NEW at
  PROVE  LET g == Calm(f) IN
         /\ g \in Folder /\ InView(g) /\ ~g.bumped
         /\ g.items = f.items /\ g.cursor = f.cursor /\ g.trace = f.trace
         /\ g.stage = f.stage /\ g.filter = f.filter /\ g.ticket = f.ticket /\ AllKeys(g) = AllKeys(f)
         /\ FollowedIn(f, at) => Rests(g, at)
<1> DEFINE g == Calm(f)
<1>1. /\ g \in Folder /\ ~g.bumped /\ g.items = f.items /\ g.hidden = f.hidden
      /\ g.cursor = f.cursor /\ g.offset = f.offset /\ g.trace = f.trace
      /\ g.stage = f.stage /\ g.filter = f.filter /\ g.ticket = f.ticket
  BY DEF Calm, Folder
<1> HIDE DEF g
<1>2. InView(g) /\ AllKeys(g) = AllKeys(f)
  BY <1>1 DEF InView, AllKeys
<1>3. Hovered(g) = Hovered(f)
  BY <1>1 DEF Hovered
<1>4. FollowedIn(f, at) => FollowedIn(g, at)
  BY <1>1, <1>2, <1>3 DEF FollowedIn
<1> QED
  BY <1>1, <1>2, <1>4 DEF Rests, g

(* So do both together. *)
LEMMA PreferredFacts ==
  ASSUME NEW f \in Folder, NEW at \in Spots, InView(f), PrefOK
  PROVE  Turns(f, Prefer(f, at), at)
<1> DEFINE g == Hide(f, at, pref.show)
           h == Sort(g, at, pref.by)
<1>1. pref.show \in BOOLEAN /\ pref.by \in {"name", "time"}
  BY DEF PrefOK
<1>2. Turns(f, g, at)
  BY <1>1, PreferFacts
<1>3. g \in Folder /\ InView(g)
  BY <1>2 DEF Turns
<1> HIDE DEF g
<1>4. Turns(g, h, at)
  BY <1>1, <1>3, PreferFacts
<1>5. Prefer(f, at) = h
  BY DEF Prefer, g
<1> HIDE DEF h
<1> QED
  BY <1>2, <1>4, <1>5, TurnsTwice

(* After what changes the entries the cursor follows, or nothing has       *)
(* changed that is seen.                                                   *)
LEMMA SettleFacts ==
  ASSUME NEW f \in Folder, InView(f), cwd \in Spots, PrefOK
  PROVE  LET g == Settle(f) IN
         /\ g \in Folder /\ ~g.bumped /\ InView(g)
         /\ AllKeys(g) = AllKeys(f) /\ g.stage = f.stage /\ g.filter = f.filter
         /\ FollowedIn(g, cwd) \/ (~f.bumped /\ g.items = f.items /\ g.cursor = f.cursor)
<1> DEFINE p == Prefer(f, cwd)
           h == IF p.bumped THEN Hover(p, cwd) ELSE p
           g == Calm(h)
<1>1. Turns(f, p, cwd)
  BY PreferredFacts
<1>2. Settle(f) = g
  BY DEF Settle
<1> HIDE DEF p
<1>3. p \in Folder
  BY <1>1 DEF Turns
<1>4. Points(p, Hover(p, cwd)) /\ FollowedIn(Hover(p, cwd), cwd)
  BY <1>3, HoverFacts
<1>5. /\ h \in Folder /\ InView(h) /\ AllKeys(h) = AllKeys(f) /\ h.stage = f.stage /\ h.filter = f.filter
      /\ FollowedIn(h, cwd) \/ (~f.bumped /\ h.items = f.items /\ h.cursor = f.cursor)
  <2>1. CASE p.bumped
    BY <1>1, <1>4, <2>1 DEF Points, Turns, AllKeys
  <2>2. CASE ~p.bumped
    BY <1>1, <2>2 DEF Turns
  <2> QED
    BY <2>1, <2>2
<1> HIDE DEF h
<1>6. /\ g \in Folder /\ InView(g) /\ ~g.bumped
      /\ g.items = h.items /\ g.cursor = h.cursor
      /\ g.stage = h.stage /\ g.filter = h.filter /\ AllKeys(g) = AllKeys(h)
      /\ FollowedIn(h, cwd) => Rests(g, cwd)
  BY <1>5, CalmFacts
<1> HIDE DEF g
<1> QED
  BY <1>2, <1>5, <1>6 DEF Rests

(* Where the tab goes, the cursor is. *)
LEMMA CdFacts ==
  ASSUME NEW f \in Folder, InView(f), NEW to \in Spots, PrefOK
  PROVE  LET g == Calm(Hover(Prefer(f, to), to)) IN
         Rests(g, to) /\ AllKeys(g) = AllKeys(f) /\ g.stage = f.stage /\ g.filter = f.filter
<1> DEFINE p == Prefer(f, to)
           h == Hover(p, to)
           g == Calm(h)
<1>1. Turns(f, p, to)
  BY PreferredFacts
<1> HIDE DEF p
<1>2. p \in Folder
  BY <1>1 DEF Turns
<1>3. Points(p, h) /\ FollowedIn(h, to)
  BY <1>2, HoverFacts
<1> HIDE DEF h
<1>4. h \in Folder /\ InView(h) /\ AllKeys(h) = AllKeys(f) /\ h.stage = f.stage /\ h.filter = f.filter
  BY <1>1, <1>3 DEF Points, Turns, AllKeys
<1>5. Rests(g, to) /\ g.stage = h.stage /\ g.filter = h.filter /\ AllKeys(g) = AllKeys(h)
  BY <1>3, <1>4, CalmFacts
<1> QED
  BY <1>4, <1>5 DEF h, p

(* What is revealed is hovered, and what was listed still is. *)
LEMMA RevealFacts ==
  ASSUME NEW f \in Folder, InView(f), NEW k \in Names, PrefOK
  PROVE  LET g == RevealIn(f, k) IN
         Rests(g, Home) /\ AllKeys(f) \subseteq AllKeys(g) /\ g.stage = f.stage /\ g.filter = f.filter
<1> DEFINE e == [op |-> "Create", file |-> File(k, Dummy)]
           a == HoverKey(f, k)
           b == Update(a, e)
           c == Sort(b, Home, pref.by)
           h == IF Hovered(a) = k THEN a ELSE c
           o == HoverOn(h, k)
           g == Calm(o)
<1>1. RevealIn(f, k) = g
  BY DEF RevealIn
<1>2. Points(f, a)
  BY HoverKeyFacts
<1> HIDE DEF a
<1>3. a \in Folder /\ InView(a) /\ AllKeys(a) = AllKeys(f) /\ a.stage = f.stage /\ a.filter = f.filter
  BY <1>2 DEF Points, AllKeys
<1>4. Updates(a, b) /\ b.stage = a.stage /\ AllKeys(a) \subseteq AllKeys(b)
  <2>1. e.op = "Create" /\ e.file \in Files
    BY DEF File, Files, Dummy
  <2> HIDE DEF e
  <2>2. {} \in SUBSET Names
    OBVIOUS
  <2> QED
    BY <1>3, <2>1, <2>2, UpdateFacts
<1> HIDE DEF b
<1>5. b \in Folder /\ InView(b) /\ b.filter = a.filter
  BY <1>4 DEF Updates
<1>6. Home \in Spots /\ pref.by \in {"name", "time"} /\ pref.show \in BOOLEAN
  BY DEF Spots, PrefOK
<1>7. Turns(b, c, Home)
  BY <1>5, <1>6, PreferFacts
<1> HIDE DEF c
<1>8. h \in Folder /\ InView(h) /\ AllKeys(f) \subseteq AllKeys(h) /\ h.stage = f.stage /\ h.filter = f.filter
  BY <1>3, <1>4, <1>5, <1>7 DEF Turns
<1> HIDE DEF h
<1>9. Points(h, o) /\ FollowedIn(o, Home)
  BY <1>8, HoverOnFacts
<1> HIDE DEF o
<1>10. o \in Folder /\ InView(o) /\ AllKeys(o) = AllKeys(h) /\ o.stage = h.stage /\ o.filter = h.filter
  BY <1>9 DEF Points, AllKeys
<1>11. Rests(g, Home) /\ g.stage = o.stage /\ g.filter = o.filter /\ AllKeys(g) = AllKeys(o)
  BY <1>9, <1>10, CalmFacts
<1> QED
  BY <1>1, <1>8, <1>10, <1>11

(* A request makes the folder fresh and changes nothing else of it.        *)
LEMMA AskFacts ==
  ASSUME NEW f \in Folder, ~f.bumped, InView(f), Ask(f)
  PROVE  /\ home' \in Folder /\ ~home'.bumped /\ InView(home')
         /\ home'.items = f.items /\ home'.cursor = f.cursor
         /\ home'.stage = f.stage /\ home'.filter = f.filter /\ AllKeys(home') = AllKeys(f)
         /\ \A at : Rests(f, at) => Rests(home', at)
<1> DEFINE g == [f EXCEPT !.stale = FALSE]
<1>1. home' = f \/ home' = g
  BY DEF Ask
<1>2. CASE home' = f
  BY <1>2
<1>3. CASE home' = g
  <2>1. /\ g \in Folder /\ ~g.bumped /\ g.items = f.items /\ g.hidden = f.hidden
        /\ g.cursor = f.cursor /\ g.offset = f.offset /\ g.trace = f.trace
        /\ g.stage = f.stage /\ g.filter = f.filter
    BY DEF Folder
  <2> HIDE DEF g
  <2>2. InView(g) /\ AllKeys(g) = AllKeys(f) /\ Hovered(g) = Hovered(f)
    BY <2>1 DEF InView, AllKeys, Hovered
  <2>3. \A at : Rests(f, at) => Rests(g, at)
    BY <2>1, <2>2 DEF Rests, FollowedIn
  <2> QED
    BY <1>3, <2>1, <2>2, <2>3
<1> QED
  BY <1>1, <1>2, <1>3
-----------------------------------------------------------------------------
(* The types of the tab. *)

AnyEvent == UNION {Events(keys) : keys \in SUBSET Names}

DataOK ==
  /\ disk \in [Names -> {Absent} \cup 1..MaxChanges + 1]
  /\ pending \in Seq(Names \cup {Home})
  /\ permit \in {<<>>} \cup (Names \X Names)
  /\ reading \in {Idle} \cup Reading
  /\ queue \in Seq(AnyEvent)
  /\ issued \in Nat /\ torn \in BOOLEAN
  /\ changes \in 0..MaxChanges /\ reads \in Nat /\ acts \in Nat

HomeOK ==
  /\ home \in Folder /\ ~home.bumped /\ InView(home)
  /\ cwd \in Spots /\ PrefOK

(* What the kinds of events carry. *)
LEMMA EventFields ==
  ASSUME NEW e \in AnyEvent
  PROVE  /\ e.op \in Loads \cup {"Delete", "Upsert", "Reveal", "Self"}
         /\ e.op = "Full" => e.files \in Seq(Files)
         /\ e.op = "Part" => e.files \in Seq(Files) /\ e.ticket \in Nat
         /\ e.op = "Done" => e.ticket \in Nat
         /\ e.op = "Delete" => e.keys \in SUBSET Names
         /\ e.op = "Upsert" => \E K \in SUBSET Names : e.files \in [K -> Files]
         /\ e.op = "Reveal" => e.key \in Names
<1>1. PICK K \in SUBSET Names : e \in Events(K)
  BY DEF AnyEvent
<1> QED
  BY <1>1 DEF Events, Loads

(* What carries that is an event. *)
LEMMA NewEvents ==
  /\ \A files \in Seq(Files) : [op |-> "Full", files |-> files] \in AnyEvent
  /\ \A files \in Seq(Files), ticket \in Nat :
       [op |-> "Part", files |-> files, ticket |-> ticket] \in AnyEvent
  /\ \A ticket \in Nat : [op |-> "Done", ticket |-> ticket] \in AnyEvent
  /\ \A keys \in SUBSET Names : [op |-> "Delete", keys |-> keys] \in AnyEvent
  /\ \A K \in SUBSET Names : \A files \in [K -> Files] : [op |-> "Upsert", files |-> files] \in AnyEvent
  /\ \A n \in Names : [op |-> "Reveal", key |-> n] \in AnyEvent
  /\ [op |-> "Self"] \in AnyEvent
<1>1. \A K \in SUBSET Names : Events(K) \subseteq AnyEvent
  BY DEF AnyEvent
<1>2. {} \in SUBSET Names
  OBVIOUS
<1>3. \A K \in SUBSET Names : \A files \in [K -> Files] : [op |-> "Upsert", files |-> files] \in Events(K)
  BY DEF Events
<1>4. /\ \A files \in Seq(Files) : [op |-> "Full", files |-> files] \in Events({})
      /\ \A files \in Seq(Files), ticket \in Nat :
           [op |-> "Part", files |-> files, ticket |-> ticket] \in Events({})
      /\ \A ticket \in Nat : [op |-> "Done", ticket |-> ticket] \in Events({})
      /\ \A keys \in SUBSET Names : [op |-> "Delete", keys |-> keys] \in Events({})
      /\ \A n \in Names : [op |-> "Reveal", key |-> n] \in Events({})
      /\ [op |-> "Self"] \in Events({})
  BY DEF Events
<1> HIDE DEF Events
<1> QED
  BY <1>1, <1>2, <1>3, <1>4

(* The event at hand is one of those that come. *)
LEMMA TakenEvent ==
  ASSUME queue \in Seq(AnyEvent), NEW op, Next1(op)
  PROVE  Head(queue) \in AnyEvent /\ Head(queue).op = op /\ queue' \in Seq(AnyEvent)
BY DEF Next1

-----------------------------------------------------------------------------
(* The cursor follows. *)

(* What a step makes of the folder and the place of the tab.               *)
HomeMoves ==
  /\ home' \in Folder /\ ~home'.bumped /\ InView(home')
  /\ cwd' \in Spots
  /\ \/ FollowedIn(home', cwd')
     \/ home'.items = home.items /\ home'.cursor = home.cursor /\ cwd' = cwd
     \/ home'.filter # home.filter

(* When the tab goes somewhere, the cursor follows, and as many files are *)
(* listed. *)
LEMMA HomeGoes ==
  ASSUME NEW f \in Folder, InView(f), NEW to \in Spots, PrefOK, NEW b, Cd(f, to, b)
  PROVE  /\ home' \in Folder /\ ~home'.bumped /\ InView(home') /\ cwd' = to
         /\ FollowedIn(home', to)
         /\ AllKeys(home') = AllKeys(f) /\ home'.stage = f.stage
<1> DEFINE g == Calm(Hover(Prefer(f, to), to))
<1>1. Rests(g, to) /\ AllKeys(g) = AllKeys(f) /\ g.stage = f.stage
  BY CdFacts
<1>2. Ask(g) /\ cwd' = to
  BY DEF Cd
<1> HIDE DEF g
<1>3. g \in Folder /\ ~g.bumped /\ InView(g)
  BY <1>1 DEF Rests, FollowedIn
<1>4. /\ home' \in Folder /\ ~home'.bumped /\ InView(home')
      /\ home'.stage = g.stage /\ AllKeys(home') = AllKeys(g)
      /\ Rests(home', to)
  BY <1>1, <1>2, <1>3, AskFacts
<1> QED
  BY <1>1, <1>2, <1>4 DEF Rests

(* The same when an update settles, or nothing has changed that is seen. *)
LEMMA HomeSettles ==
  ASSUME HomeOK, NEW f, Updates(home, f), home' = Settle(f)
  PROVE  /\ home' \in Folder /\ ~home'.bumped /\ InView(home')
         /\ FollowedIn(home', cwd) \/ (home'.items = home.items /\ home'.cursor = home.cursor)
         /\ AllKeys(home') = AllKeys(f) /\ home'.stage = f.stage
<1>1. f \in Folder /\ InView(f) /\ cwd \in Spots /\ PrefOK
  BY DEF Updates, HomeOK
<1> DEFINE g == Settle(f)
<1>2. /\ g \in Folder /\ ~g.bumped /\ InView(g)
      /\ AllKeys(g) = AllKeys(f) /\ g.stage = f.stage
      /\ FollowedIn(g, cwd) \/ (~f.bumped /\ g.items = f.items /\ g.cursor = f.cursor)
  BY <1>1, SettleFacts
<1> HIDE DEF g
<1>3. home' = g
  BY DEF g
<1> QED
  BY <1>2, <1>3 DEF Updates
(* What a reading has brought. *)
LEMMA LoadMoves ==
  ASSUME DataOK, HomeOK, UpdateLoad
  PROVE  LET h == Head(queue) IN
         /\ HomeMoves
         /\ h.op = "Full" => AllKeys(home') = Keys(h.files)
         /\ h.op = "Part" => home'.stage = "Loading"
                             \/ (home.stage = "Loaded" /\ AllKeys(home') = AllKeys(home))
         /\ h.op = "Done" => /\ AllKeys(home') = AllKeys(home)
                             /\ \/ home'.stage = home.stage
                                \/ home.stage = "Loading" /\ home.ticket = h.ticket
<1> DEFINE h == Head(queue)
           e == IF h.op = "Full" THEN [op |-> "Full", files |-> h.files, ticket |-> issued + 1] ELSE h
           f == Update(home, e)
<1>1. h \in AnyEvent /\ h.op \in Loads
  BY TakenEvent DEF UpdateLoad, DataOK
<1>2. home' = Settle(f) /\ cwd' = cwd
  BY DEF UpdateLoad, place
<1>3. home \in Folder /\ InView(home) /\ {} \in SUBSET Names /\ cwd \in Spots /\ issued \in Nat
  BY DEF HomeOK, DataOK
<1>4. home.stage \in {"Loading", "Loaded"}
  BY <1>3, FolderFacts
<1>5. /\ h.op = "Full" => e.op = "Full" /\ e.files = h.files /\ e.files \in Seq(Files) /\ e.ticket \in Nat
      /\ h.op # "Full" => e = h
  BY <1>1, <1>3, EventFields
<1>6. /\ h.op = "Part" => h.files \in Seq(Files) /\ h.ticket \in Nat
      /\ h.op = "Done" => h.ticket \in Nat
  BY <1>1, EventFields
<1> HIDE DEF h, e, f
<1>7. /\ h.op = "Full" => Updates(home, f) /\ AllKeys(f) = Keys(h.files)
      /\ h.op = "Part" =>
           Updates(home, f) /\ (f.stage = "Loading" \/ (f.stage = home.stage /\ AllKeys(f) = AllKeys(home)))
      /\ h.op = "Done" =>
           /\ Updates(home, f) /\ AllKeys(f) = AllKeys(home)
           /\ f.stage = home.stage \/ (home.stage = "Loading" /\ home.ticket = h.ticket)
  <2>1. CASE h.op = "Full"
    BY <1>3, <1>5, <2>1, UpdateFacts DEF f
  <2>2. CASE h.op = "Part"
    <3>1. e = h
      BY <1>5, <2>2
    <3> QED
      BY <1>3, <1>6, <2>2, <3>1, UpdateFacts DEF f
  <2>3. CASE h.op = "Done"
    <3>1. e = h
      BY <1>5, <2>3
    <3> QED
      BY <1>3, <2>3, <3>1, UpdateFacts DEF f
  <2> QED
    BY <2>1, <2>2, <2>3
<1>8. Updates(home, f)
  BY <1>1, <1>7 DEF Loads
<1>9. /\ home' \in Folder /\ ~home'.bumped /\ InView(home')
      /\ FollowedIn(home', cwd) \/ (home'.items = home.items /\ home'.cursor = home.cursor)
      /\ AllKeys(home') = AllKeys(f) /\ home'.stage = f.stage
  BY <1>2, <1>8, HomeSettles
<1>10. HomeMoves
  BY <1>2, <1>3, <1>9 DEF HomeMoves
<1> QED
  BY <1>4, <1>7, <1>9, <1>10 DEF h

(* What the watcher, or the tab itself, has found. *)
LEMMA UpsertMoves ==
  ASSUME DataOK, HomeOK, UpdateUpserted
  PROVE  /\ HomeMoves /\ home'.stage = home.stage
         /\ \E K \in SUBSET Names :
              /\ Head(queue).files \in [K -> Files]
              /\ \A k \in K : Head(queue).files[k].key \in AllKeys(home')
              /\ \A n \in AllKeys(home) \ K :
                   (\A k \in K : Head(queue).files[k].key = n => k = n) => n \in AllKeys(home')
<1> DEFINE e == Head(queue)
           f == Update(home, e)
<1>1. e \in AnyEvent /\ e.op = "Upsert"
  BY TakenEvent DEF UpdateUpserted, DataOK
<1>2. home' = Settle(f) /\ cwd' = cwd
  BY DEF UpdateUpserted, place
<1>3. home \in Folder /\ InView(home) /\ cwd \in Spots
  BY DEF HomeOK
<1> HIDE DEF e
<1>4. PICK K \in SUBSET Names : e.files \in [K -> Files]
  BY <1>1, EventFields
<1>5. /\ Updates(home, f) /\ f.stage = home.stage
      /\ \A k \in K : e.files[k].key \in AllKeys(f)
      /\ \A n \in AllKeys(home) \ K :
           (\A k \in K : e.files[k].key = n => k = n) => n \in AllKeys(f)
  BY <1>1, <1>3, <1>4, UpdateFacts
<1> HIDE DEF f
<1>6. /\ home' \in Folder /\ ~home'.bumped /\ InView(home')
      /\ FollowedIn(home', cwd) \/ (home'.items = home.items /\ home'.cursor = home.cursor)
      /\ AllKeys(home') = AllKeys(f) /\ home'.stage = f.stage
  BY <1>2, <1>5, HomeSettles
<1>7. HomeMoves
  BY <1>2, <1>3, <1>6 DEF HomeMoves
<1> QED
  BY <1>4, <1>5, <1>6, <1>7 DEF e

(* What is gone, with the directory the tab was in perhaps. *)
LEMMA DeleteMoves ==
  ASSUME DataOK, HomeOK, UpdateDeleted
  PROVE  /\ HomeMoves /\ home'.stage = home.stage
         /\ Head(queue).keys \in SUBSET Names
         /\ AllKeys(home) \ Head(queue).keys \subseteq AllKeys(home')
<1> DEFINE e == Head(queue)
           f == Update(home, e)
           b == RemoveKeys(stack, pos, e.keys)
<1>1. e \in AnyEvent /\ e.op = "Delete"
  BY TakenEvent DEF UpdateDeleted, DataOK
<1>2. Cd(f, Home, b) \/ (home' = Settle(f) /\ cwd' = cwd)
  BY DEF UpdateDeleted
<1>3. home \in Folder /\ InView(home) /\ cwd \in Spots /\ {} \in SUBSET Names /\ PrefOK
  BY DEF HomeOK
<1>4. Home \in Spots
  BY DEF Spots
<1> HIDE DEF e, b
<1>5. e.keys \in SUBSET Names
  BY <1>1, EventFields
<1>6. /\ Updates(home, f) /\ f.stage = home.stage /\ AllKeys(home) \ e.keys \subseteq AllKeys(f)
  BY <1>1, <1>3, UpdateFacts
<1> HIDE DEF f
<1>7. CASE Cd(f, Home, b)
  <2>1. f \in Folder /\ InView(f)
    BY <1>6 DEF Updates
  <2>2. /\ home' \in Folder /\ ~home'.bumped /\ InView(home') /\ cwd' = Home
        /\ FollowedIn(home', Home)
        /\ AllKeys(home') = AllKeys(f) /\ home'.stage = f.stage
    BY <1>3, <1>4, <1>7, <2>1, HomeGoes
  <2> QED
    BY <1>4, <1>5, <1>6, <2>2 DEF HomeMoves, e
<1>8. CASE home' = Settle(f) /\ cwd' = cwd
  <2>1. /\ home' \in Folder /\ ~home'.bumped /\ InView(home')
        /\ FollowedIn(home', cwd) \/ (home'.items = home.items /\ home'.cursor = home.cursor)
        /\ AllKeys(home') = AllKeys(f) /\ home'.stage = f.stage
    BY <1>6, <1>8, HomeSettles
  <2>2. HomeMoves
    BY <1>3, <1>8, <2>1 DEF HomeMoves
  <2> QED
    BY <1>5, <1>6, <2>1, <2>2 DEF e
<1> QED
  BY <1>2, <1>7, <1>8

(* A stale folder lists what it did. *)
LEMMA InvalidateMoves ==
  ASSUME HomeOK, Invalidate
  PROVE  HomeMoves /\ home'.stage = home.stage /\ AllKeys(home') = AllKeys(home)
<1>1. home' = [home EXCEPT !.stale = TRUE] /\ cwd' = cwd /\ home \in Folder
  BY DEF Invalidate, place, HomeOK
<1>2. /\ home' \in Folder /\ home'.items = home.items /\ home'.hidden = home.hidden
      /\ home'.cursor = home.cursor /\ home'.offset = home.offset
      /\ home'.bumped = home.bumped /\ home'.stage = home.stage
  BY <1>1 DEF Folder
<1> QED
  BY <1>1, <1>2 DEF HomeMoves, HomeOK, InView, AllKeys

(* A file is revealed. *)
LEMMA RevealMoves ==
  ASSUME DataOK, HomeOK, Reveal
  PROVE  HomeMoves /\ home'.stage = home.stage /\ AllKeys(home) \subseteq AllKeys(home')
<1> DEFINE e == Head(queue)
           k == e.key
<1>1. e \in AnyEvent /\ e.op = "Reveal"
  BY TakenEvent DEF Reveal, DataOK
<1> HIDE DEF e
<1>2. k \in Names
  BY <1>1, EventFields
<1>3. home \in Folder /\ InView(home) /\ cwd \in Spots /\ PrefOK
  BY DEF HomeOK
<1>4. Home \in Spots
  BY DEF Spots
<1> HIDE DEF k
<1>5. CASE cwd = Home
  <2> DEFINE g == RevealIn(home, k)
  <2>1. home' = g /\ cwd' = Home
    BY <1>5 DEF Reveal, place, k, e
  <2>2. Rests(g, Home) /\ AllKeys(home) \subseteq AllKeys(g) /\ g.stage = home.stage
    BY <1>2, <1>3, RevealFacts
  <2> HIDE DEF g
  <2>3. InView(g)
    BY <2>2 DEF Rests, FollowedIn
  <2> QED
    BY <1>4, <2>1, <2>2, <2>3 DEF Rests, HomeMoves
<1>6. CASE cwd # Home
  <2> DEFINE f == Calm(Hover(Prefer(home, Home), Home))
             g == RevealIn(f, k)
  <2>1. Ask(g) /\ cwd' = Home
    BY <1>6 DEF Reveal, k, e
  <2>2. Rests(f, Home) /\ AllKeys(f) = AllKeys(home) /\ f.stage = home.stage
    BY <1>3, <1>4, CdFacts
  <2> HIDE DEF f
  <2>3. f \in Folder /\ InView(f)
    BY <2>2 DEF Rests, FollowedIn
  <2>4. Rests(g, Home) /\ AllKeys(f) \subseteq AllKeys(g) /\ g.stage = f.stage
    BY <1>2, <1>3, <2>3, RevealFacts
  <2> HIDE DEF g
  <2>5. g \in Folder /\ ~g.bumped /\ InView(g)
    BY <2>4 DEF Rests, FollowedIn
  <2>6. /\ home' \in Folder /\ ~home'.bumped /\ InView(home')
        /\ home'.stage = g.stage /\ AllKeys(home') = AllKeys(g)
        /\ Rests(home', Home)
    BY <2>1, <2>4, <2>5, AskFacts
  <2> QED
    BY <1>4, <2>1, <2>2, <2>4, <2>6 DEF Rests, HomeMoves
<1> QED
  BY <1>5, <1>6
(* Listed files stay while the user looks at them. *)
Browses == HomeMoves /\ home'.stage = home.stage /\ AllKeys(home') = AllKeys(home)

(* The user moves the cursor, *)
LEMMA MoveBrowses ==
  ASSUME HomeOK, NEW n \in {-1, 1}, Move(n)
  PROVE  Browses
<1> DEFINE new == (home.cursor + n) % Len(home.items)
           f == ArrowTo(home, new)
           r == Retrace(f)
           h == Hover(r, Home)
<1>1. home' = h /\ cwd' = cwd /\ cwd = Home /\ home.items # <<>>
  BY DEF Move, ArrowAround, place
<1>2. home \in Folder /\ Home \in Spots
  BY DEF HomeOK, Spots
<1>3. new \in Nat /\ new < Len(home.items)
  <2>1. home.cursor \in Nat /\ home.items \in Seq(Files)
    BY <1>2, FolderFacts
  <2>2. Len(home.items) \in Nat /\ Len(home.items) > 0
    BY <1>1, <2>1
  <2>3. home.cursor + n \in Int
    BY <2>1
  <2> QED
    BY <2>2, <2>3
<1> HIDE DEF new
<1>4. Points(home, f)
  BY <1>2, <1>3, ArrowToFacts
<1> HIDE DEF f
<1>5. Points(home, r)
  BY <1>4, RetraceFacts
<1> HIDE DEF r
<1>6. r \in Folder
  BY <1>5 DEF Points
<1>7. Points(r, h) /\ FollowedIn(h, Home)
  BY <1>2, <1>6, HoverFacts
<1> HIDE DEF h
<1>8. ~home.bumped
  BY DEF HomeOK
<1> QED
  BY <1>1, <1>2, <1>5, <1>7, <1>8 DEF Points, AllKeys, Browses, HomeMoves

(* has another preference, *)
LEMMA PreferBrowses ==
  ASSUME HomeOK, ToggleHidden \/ \E by \in {"name", "time"} : SortBy(by)
  PROVE  Browses /\ PrefOK'
<1>1. home \in Folder /\ InView(home) /\ cwd \in Spots /\ pref \in [show : BOOLEAN, by : {"name", "time"}]
  BY DEF HomeOK, PrefOK
<1>2. ASSUME NEW g, Turns(home, g, cwd), home' = Calm(g), cwd' = cwd
      PROVE  Browses
  <2> DEFINE h == Calm(g)
  <2>1. g \in Folder /\ InView(g)
    BY <1>2 DEF Turns
  <2>2. /\ h \in Folder /\ InView(h) /\ ~h.bumped
        /\ h.items = g.items /\ h.cursor = g.cursor
        /\ h.stage = g.stage /\ h.filter = g.filter /\ AllKeys(h) = AllKeys(g)
        /\ FollowedIn(g, cwd) => Rests(h, cwd)
    BY <2>1, CalmFacts
  <2> HIDE DEF h
  <2>3. home' = h
    BY <1>2 DEF h
  <2> QED
    BY <1>1, <1>2, <2>2, <2>3 DEF Turns, Browses, HomeMoves, Rests
<1>3. CASE ToggleHidden
  <2>1. /\ pref' = [pref EXCEPT !.show = ~pref.show]
        /\ home' = Calm(Hide(home, cwd, pref'.show)) /\ cwd' = cwd
    BY <1>3 DEF ToggleHidden, place
  <2>2. pref'.show \in BOOLEAN /\ pref' \in [show : BOOLEAN, by : {"name", "time"}]
    BY <1>1, <2>1
  <2>3. Turns(home, Hide(home, cwd, pref'.show), cwd)
    <3>1. ASSUME NEW show \in BOOLEAN PROVE Turns(home, Hide(home, cwd, show), cwd)
      <4>1. "name" \in {"name", "time"}
        OBVIOUS
      <4> QED
        BY <1>1, <4>1, PreferFacts
    <3> QED
      BY <2>2, <3>1
  <2>4. Browses
    BY <1>2, <2>1, <2>3
  <2> QED
    BY <2>2, <2>4 DEF PrefOK
<1>4. ASSUME NEW by \in {"name", "time"}, SortBy(by) PROVE Browses /\ PrefOK'
  <2>1. pref' = [pref EXCEPT !.by = by] /\ home' = Calm(Sort(home, cwd, by)) /\ cwd' = cwd
    BY <1>4 DEF SortBy, place
  <2>2. pref' \in [show : BOOLEAN, by : {"name", "time"}]
    BY <1>1, <2>1
  <2>3. Turns(home, Sort(home, cwd, by), cwd)
    <3>1. TRUE \in BOOLEAN
      OBVIOUS
    <3> QED
      BY <1>1, <3>1, PreferFacts
  <2>4. Browses
    BY <1>2, <2>1, <2>3
  <2> QED
    BY <2>2, <2>4 DEF PrefOK
<1> QED
  BY <1>3, <1>4

(* filters, *)
LEMMA FilterBrowses ==
  ASSUME HomeOK, FilterDo
  PROVE  Browses
<1> DEFINE on == ~home.filter
           f == SetFilter(home, on)
           k == Hovered(home)
<1>1. home \in Folder /\ InView(home) /\ ~home.bumped /\ Home \in Spots
  BY DEF HomeOK, Spots
<1>2. on \in BOOLEAN /\ on # home.filter
  BY <1>1, FolderFacts
<1> HIDE DEF on
<1>3. /\ f \in Folder /\ AllKeys(f) = AllKeys(home) /\ f.filter = on
      /\ f.cursor = home.cursor /\ f.offset = home.offset /\ f.stage = home.stage
      /\ f.bumped = home.bumped
  BY <1>1, <1>2, FilterFacts
<1>4. cwd = Home /\ cwd' = Home
  BY DEF FilterDo, place
<1>5. \/ Hovered(f) = k /\ home' = f
      \/ Hovered(f) # k /\ k = None /\ home' = Hover(f, Home)
      \/ Hovered(f) # k /\ k # None /\ home' = HoverOn(f, k)
  BY DEF FilterDo, on
<1> HIDE DEF f, k
<1>6. CASE Hovered(f) = k /\ home' = f
  <2>1. f.items \in Seq(Files) /\ Len(f.items) \in Nat /\ f.cursor \in Nat
    BY <1>3, FolderFacts
  <2>2. k # None => f.cursor < Len(f.items)
    BY <1>6 DEF Hovered
  <2>3. k = None => home.items = <<>>
    BY <1>1, HoveredFacts DEF k
  <2>4. k = None => f.cursor = 0
    BY <1>1, <1>3, <2>3 DEF InView
  <2>5. k = None => f.items = <<>>
    <3> SUFFICES ASSUME k = None, f.items # <<>> PROVE FALSE
      OBVIOUS
    <3>1. Len(f.items) > 0
      BY <2>1
    <3>2. f.cursor < Len(f.items)
      BY <2>4, <3>1
    <3>3. Hovered(f) = f.items[f.cursor + 1].key
      BY <3>2 DEF Hovered
    <3>4. f.cursor + 1 \in 1..Len(f.items)
      BY <2>1, <3>2
    <3>5. f.items[f.cursor + 1].key \in Names
      BY <2>1, <3>4, KeysNames
    <3> QED
      BY <1>6, <3>3, <3>5, PaneAssumption
  <2>6. f.offset <= f.cursor /\ f.cursor < f.offset + Limit
    BY <1>1, <1>3 DEF InView
  <2>7. f.items = <<>> => Len(f.items) = 0
    BY <2>1
  <2>8. k = None => InView(f)
    BY <2>4, <2>5, <2>6 DEF InView
  <2>9. k # None => InView(f)
    <3> SUFFICES ASSUME k # None PROVE InView(f)
      OBVIOUS
    <3>1. f.items # <<>>
      BY <2>1, <2>2, <2>7
    <3> QED
      BY <2>2, <2>6, <3>1 DEF InView
  <2> QED
    BY <1>1, <1>2, <1>3, <1>4, <1>6, <2>8, <2>9 DEF Browses, HomeMoves
<1>7. CASE home' = Hover(f, Home)
  <2> DEFINE g == Hover(f, Home)
  <2>1. Points(f, g) /\ FollowedIn(g, Home)
    BY <1>1, <1>3, HoverFacts
  <2> HIDE DEF g
  <2>2. home' = g
    BY <1>7 DEF g
  <2> QED
    BY <1>1, <1>3, <1>4, <2>1, <2>2 DEF Points, AllKeys, Browses, HomeMoves
<1>8. CASE k # None /\ home' = HoverOn(f, k)
  <2>1. k \in Names
    BY <1>1, <1>8, HoveredFacts, FolderFacts DEF k
  <2> DEFINE g == HoverOn(f, k)
  <2>2. Points(f, g) /\ FollowedIn(g, Home)
    BY <1>3, <2>1, HoverOnFacts
  <2> HIDE DEF g
  <2>3. home' = g
    BY <1>8 DEF g
  <2> QED
    BY <1>1, <1>3, <1>4, <2>2, <2>3 DEF Points, AllKeys, Browses, HomeMoves
<1> QED
  BY <1>5, <1>6, <1>7, <1>8

(* goes somewhere, *)
LEMMA GoBrowses ==
  ASSUME HomeOK, StackInv, Go
  PROVE  Browses
<1>1. home \in Folder /\ InView(home) /\ PrefOK
  BY DEF HomeOK
<1>2. stack \in Seq(Spots) /\ DOMAIN stack = 1..Len(stack)
  BY DEF StackInv
<1>3. \E to \in Spots : \E b : Cd(home, to, b)
  <2>1. CASE Hovered(home) \in Dirs /\ Cd(home, Hovered(home), [stack |-> stack, pos |-> pos])
    BY <2>1 DEF Spots
  <2>2. CASE Cd(home, Home, [stack |-> stack, pos |-> pos])
    BY <2>2 DEF Spots
  <2>3. CASE \E p \in {pos - 1, pos + 1} \cap DOMAIN stack : Cd(home, stack[p], [stack |-> stack, pos |-> p])
    <3>1. PICK p \in 1..Len(stack) : Cd(home, stack[p], [stack |-> stack, pos |-> p])
      BY <1>2, <2>3
    <3>2. stack[p] \in Spots
      BY <1>2
    <3> QED
      BY <3>1, <3>2
  <2> QED
    BY <2>1, <2>2, <2>3 DEF Go
<1>4. PICK to \in Spots : \E b : Cd(home, to, b)
  BY <1>3
<1>5. PICK b : Cd(home, to, b)
  BY <1>4
<1>6. /\ home' \in Folder /\ ~home'.bumped /\ InView(home') /\ cwd' = to
      /\ FollowedIn(home', to)
      /\ AllKeys(home') = AllKeys(home) /\ home'.stage = home.stage
  BY <1>1, <1>5, HomeGoes
<1> QED
  BY <1>6 DEF Browses, HomeMoves

(* or comes back to the terminal. *)
LEMMA FocusBrowses ==
  ASSUME HomeOK, Focus
  PROVE  Browses
<1>1. Ask(home) /\ cwd' = cwd
  BY DEF Focus, place
<1>2. home \in Folder /\ ~home.bumped /\ InView(home) /\ cwd \in Spots
  BY DEF HomeOK
<1>3. /\ home' \in Folder /\ ~home'.bumped /\ InView(home')
      /\ home'.items = home.items /\ home'.cursor = home.cursor
      /\ home'.stage = home.stage /\ AllKeys(home') = AllKeys(home)
  BY <1>1, <1>2, AskFacts
<1> QED
  BY <1>1, <1>2, <1>3 DEF Browses, HomeMoves
-----------------------------------------------------------------------------
(* The types of the rest. *)

(* A directory is opened. *)
LEMMA BeginFacts ==
  ASSUME NEW ticket \in Nat \ {0}, NEW stream \in BOOLEAN
  PROVE  Begin(ticket, stream) \in Reading
<1> DEFINE P == {i \in DOMAIN Alphabet : disk[Alphabet[i]] # Absent}
           left == Pick(Alphabet, P)
           got == <<>>
<1>1. Alphabet \in Seq(Names) /\ P \in SUBSET (1..Len(Alphabet))
  BY PaneAssumption
<1> HIDE DEF P
<1>2. left \in Seq(Names)
  BY <1>1, PickFacts
<1>4. got \in Seq(Files)
  OBVIOUS
<1>3. Begin(ticket, stream) = [ticket |-> ticket, stream |-> stream, got |-> got, left |-> left]
  BY DEF Begin, P
<1> HIDE DEF left, got
<1> QED
  BY <1>2, <1>3, <1>4 DEF Reading

(* A request is numbered and begins a reading, or nothing happens. *)
LEMMA AskData ==
  ASSUME reading \in {Idle} \cup Reading, issued \in Nat, reads \in Nat, torn \in BOOLEAN,
         NEW f, Ask(f)
  PROVE  reading' \in {Idle} \cup Reading /\ issued' \in Nat /\ reads' \in Nat /\ torn' \in BOOLEAN
<1>1. CASE UNCHANGED <<reads, issued, reading, torn>>
  BY <1>1
<1>2. CASE /\ reads' = reads + 1 /\ issued' = issued + 1
           /\ reading' = Begin(issued + 1, FALSE) /\ torn' = FALSE
  <2>1. issued + 1 \in Nat \ {0}
    OBVIOUS
  <2>2. Begin(issued + 1, FALSE) \in Reading
    BY <2>1, BeginFacts
  <2>3. reading' \in {Idle} \cup Reading
    BY <1>2, <2>2, Zenon
  <2>4. torn' \in BOOLEAN
    BY <1>2, Zenon
  <2>5. issued' \in Nat /\ reads' \in Nat
    BY <1>2
  <2> QED
    BY <2>3, <2>4, <2>5
<1> QED
  BY <1>1, <1>2 DEF Ask

(* Two sequences are joined. *)
LEMMA SeqJoins ==
  ASSUME NEW S, NEW s \in Seq(S), NEW t \in Seq(S)
  PROVE  s \o t \in Seq(S)
OBVIOUS

(* What is there has a stat. *)
LEMMA DiskStats ==
  ASSUME DataOK, NEW n \in Names, disk[n] # Absent
  PROVE  disk[n] \in Nat /\ File(n, disk[n]) \in Files
<1>1. disk[n] \in 1..MaxChanges + 1 /\ MaxChanges + 1 \in Nat
  BY TabAssumption DEF DataOK
<1>2. disk[n] \in Nat
  BY <1>1
<1> QED
  BY <1>2 DEF File, Files

(* A change of the disk, which reports `more`.                             *)
LEMMA ChangeData ==
  ASSUME DataOK
  PROVE  /\ \A n \in Names, stat \in {Absent, changes + 2} : Change(n, stat) =>
              /\ disk' \in [Names -> {Absent} \cup 1..MaxChanges + 1]
              /\ pending' \in Seq(Names \cup {Home})
              /\ torn' \in BOOLEAN /\ changes' \in 0..MaxChanges
         /\ \A old, new \in Names : Shift(old, new) =>
              /\ disk' \in [Names -> {Absent} \cup 1..MaxChanges + 1]
              /\ pending' \in Seq(Names \cup {Home})
              /\ torn' \in BOOLEAN /\ changes' \in 0..MaxChanges
<1> DEFINE Stats == {Absent} \cup 1..MaxChanges + 1
           Urls == Names \cup {Home}
<1>1. /\ disk \in [Names -> Stats] /\ pending \in Seq(Urls) /\ changes \in 0..MaxChanges
      /\ MaxChanges \in Nat
  BY TabAssumption DEF DataOK
<1>2. changes < MaxChanges => changes + 1 \in 0..MaxChanges /\ changes + 2 \in Stats
  BY <1>1
<1>3. Absent \in Stats
  OBVIOUS
<1>4. ASSUME NEW n \in Names, NEW m \in Names
      PROVE  pending \o <<n, Home>> \in Seq(Urls) /\ pending \o <<n, Home, m, Home>> \in Seq(Urls)
  <2>1. <<n, Home>> \in Seq(Urls)
    OBVIOUS
  <2>2. <<n, Home, m, Home>> \in Seq(Urls)
    OBVIOUS
  <2> HIDE DEF Urls
  <2> QED
    BY <1>1, <2>1, <2>2, SeqJoins
<1>5. (torn \/ OnItsWay) \in BOOLEAN
  BY DEF DataOK, OnItsWay
<1> HIDE DEF Stats, Urls
<1>6. ASSUME NEW n \in Names, NEW stat \in {Absent, changes + 2}, Change(n, stat)
      PROVE  disk' \in [Names -> Stats] /\ pending' \in Seq(Urls)
             /\ torn' \in BOOLEAN /\ changes' \in 0..MaxChanges
  <2>1. /\ changes < MaxChanges /\ changes' = changes + 1 /\ disk' = [disk EXCEPT ![n] = stat]
        /\ pending' = pending \o <<n, Home>> /\ torn' = (torn \/ OnItsWay)
    BY <1>6 DEF Change
  <2>2. stat \in Stats
    BY <1>2, <1>3, <2>1
  <2>3. disk' \in [Names -> Stats]
    BY <1>1, <2>1, <2>2
  <2>4. pending' \in Seq(Urls)
    BY <1>4, <2>1
  <2>5. torn' \in BOOLEAN
    BY <1>5, <2>1
  <2>6. changes' \in 0..MaxChanges
    BY <1>2, <2>1
  <2> QED
    BY <2>3, <2>4, <2>5, <2>6
<1>7. ASSUME NEW old \in Names, NEW new \in Names, Shift(old, new)
      PROVE  disk' \in [Names -> Stats] /\ pending' \in Seq(Urls)
             /\ torn' \in BOOLEAN /\ changes' \in 0..MaxChanges
  <2>1. /\ changes < MaxChanges /\ changes' = changes + 1
        /\ disk' = [disk EXCEPT ![old] = Absent, ![new] = changes + 2]
        /\ pending' = pending \o <<old, Home, new, Home>> /\ torn' = (torn \/ OnItsWay)
    BY <1>7 DEF Shift
  <2>2. disk' \in [Names -> Stats]
    BY <1>1, <1>2, <1>3, <2>1
  <2>3. pending' \in Seq(Urls)
    BY <1>4, <2>1
  <2>4. torn' \in BOOLEAN
    BY <1>5, <2>1
  <2>5. changes' \in 0..MaxChanges
    BY <1>2, <2>1
  <2> QED
    BY <2>2, <2>3, <2>4, <2>5
<1> QED
  BY <1>6, <1>7 DEF Stats, Urls

(* The operations that a report makes. *)
LEMMA PatchesData ==
  ASSUME DataOK, NEW urls \in SUBSET Names
  PROVE  Patches(urls) \in Seq(AnyEvent)
<1> DEFINE gone == {n \in urls : disk[n] = Absent}
           there == urls \ gone
           files == [n \in there |-> File(n, disk[n])]
           d == [op |-> "Delete", keys |-> gone]
           u == [op |-> "Upsert", files |-> files]
           s == IF gone = {} THEN <<>> ELSE <<d>>
           t == IF there = {} THEN <<>> ELSE <<u>>
<1>1. gone \in SUBSET Names /\ there \in SUBSET Names
  OBVIOUS
<1>2. files \in [there -> Files]
  <2>1. \A n \in there : n \in Names /\ disk[n] # Absent
    OBVIOUS
  <2>2. \A n \in there : File(n, disk[n]) \in Files
    BY <2>1, DiskStats
  <2> HIDE DEF there
  <2> QED
    BY <2>2
<1>3. Patches(urls) = s \o t
  BY DEF Patches
<1> HIDE DEF gone, there, files
<1>4. d \in AnyEvent /\ u \in AnyEvent
  BY <1>1, <1>2, NewEvents
<1> HIDE DEF d, u
<1>5. s \in Seq(AnyEvent) /\ t \in Seq(AnyEvent)
  BY <1>4
<1> QED
  BY <1>3, <1>5, SeqJoins

(* The watcher takes a beginning of what is pending. *)
LEMMA WatchData ==
  ASSUME DataOK, NEW k \in 1..Len(pending), Watch(k)
  PROVE  queue' \in Seq(AnyEvent) /\ pending' \in Seq(Names \cup {Home})
<1> DEFINE Urls == Names \cup {Home}
           urls == ToSet(SubSeq(pending, 1, k))
           patches == Patches(urls \ {Home})
           self == IF Home \in urls THEN << [op |-> "Self"] >> ELSE <<>>
<1>1. pending \in Seq(Urls) /\ queue \in Seq(AnyEvent)
  BY DEF DataOK
<1>2. /\ pending' = SubSeq(pending, k + 1, Len(pending))
      /\ queue' = queue \o patches \o self \/ queue' = queue \o self \o patches
  BY DEF Watch
<1>3. Len(pending) \in Nat /\ k \in Nat /\ \A i \in 1..Len(pending) : pending[i] \in Urls
  <2> HIDE DEF Urls
  <2> QED
    BY <1>1
<1>4. SubSeq(pending, k + 1, Len(pending)) \in Seq(Urls) /\ SubSeq(pending, 1, k) \in Seq(Urls)
  <2> HIDE DEF Urls
  <2>1. k + 1 \in Int /\ Len(pending) \in Int /\ k <= Len(pending)
    BY <1>3
  <2>2. \A i \in k+1..Len(pending) : pending[i] \in Urls
    BY <1>3
  <2>3. \A i \in 1..k : pending[i] \in Urls
    BY <1>3
  <2>4. SubSeq(pending, k + 1, Len(pending)) \in Seq(Urls)
    BY <1>1, <2>1, <2>2
  <2>5. SubSeq(pending, 1, k) \in Seq(Urls)
    BY <1>1, <1>3, <2>1, <2>3
  <2> QED
    BY <2>4, <2>5
<1>5. urls \subseteq Urls
  <2> DEFINE p == SubSeq(pending, 1, k)
  <2>1. p \in Seq(Urls)
    BY <1>4
  <2> HIDE DEF p, Urls
  <2>2. \A i \in DOMAIN p : p[i] \in Urls
    BY <2>1
  <2> QED
    BY <2>2 DEF ToSet, p
<1> HIDE DEF urls
<1>6. urls \ {Home} \in SUBSET Names
  BY <1>5
<1>7. patches \in Seq(AnyEvent)
  BY <1>6, PatchesData
<1>8. self \in Seq(AnyEvent)
  <2>1. [op |-> "Self"] \in AnyEvent
    BY NewEvents
  <2> HIDE DEF AnyEvent
  <2> QED
    BY <2>1
<1> HIDE DEF patches, self
<1>9. queue \o patches \o self \in Seq(AnyEvent) /\ queue \o self \o patches \in Seq(AnyEvent)
  BY <1>1, <1>7, <1>8, SeqJoins
<1> QED
  BY <1>2, <1>4, <1>9
(* A part of the directory is read. *)
LEMMA ReadData ==
  ASSUME DataOK, reading # Idle, NEW k \in 1..Len(reading.left), Read(k)
  PROVE  reading' \in Reading /\ queue' \in Seq(AnyEvent)
<1> DEFINE left == reading.left
           file(n) == File(n, IF disk[n] = Absent THEN Dummy ELSE disk[n])
           files == [i \in 1..k |-> file(left[i])]
           rest == SubSeq(left, k + 1, Len(left))
           got == IF reading.stream THEN reading.got ELSE reading.got \o files
<1>1. reading \in Reading /\ queue \in Seq(AnyEvent)
  BY DEF DataOK
<1>2. /\ left \in Seq(Names) /\ reading.got \in Seq(Files) /\ reading.ticket \in Nat
      /\ reading.stream \in BOOLEAN
  BY <1>1 DEF Reading
<1>3. /\ reading' = [reading EXCEPT !.left = rest, !.got = got]
      /\ queue' = IF reading.stream
                  THEN Append(queue, [op |-> "Part", files |-> files, ticket |-> reading.ticket])
                  ELSE queue
  BY <1>1 DEF Read, Reading
<1> HIDE DEF left
<1>4. k \in Nat /\ Len(left) \in Nat /\ k <= Len(left) /\ \A i \in 1..k : left[i] \in Names
  <2>1. Len(left) \in Nat /\ k \in 1..Len(left) /\ \A i \in 1..Len(left) : left[i] \in Names
    BY <1>2 DEF left
  <2> QED
    BY <2>1
<1>5. rest \in Seq(Names)
  BY <1>2, <1>4
<1>6. files \in Seq(Files)
  <2>1. \A n \in Names : file(n) \in Files
    <3> SUFFICES ASSUME NEW n \in Names PROVE file(n) \in Files
      OBVIOUS
    <3>1. CASE disk[n] = Absent
      BY <3>1 DEF File, Files, Dummy
    <3>2. CASE disk[n] # Absent
      BY <3>2, DiskStats
    <3> QED
      BY <3>1, <3>2
  <2> HIDE DEF file
  <2>2. files \in [1..k -> Files]
    BY <1>4, <2>1
  <2> QED
    BY <1>4, <2>2
<1> HIDE DEF files, rest
<1>7. got \in Seq(Files)
  BY <1>2, <1>6, SeqJoins
<1> HIDE DEF got
<1>8. reading' \in Reading
  BY <1>1, <1>3, <1>5, <1>7 DEF Reading
<1>9. queue' \in Seq(AnyEvent)
  <2>1. [op |-> "Part", files |-> files, ticket |-> reading.ticket] \in AnyEvent
    BY <1>2, <1>6, NewEvents
  <2> DEFINE e == [op |-> "Part", files |-> files, ticket |-> reading.ticket]
  <2> HIDE DEF e
  <2>2. Append(queue, e) \in Seq(AnyEvent)
    BY <1>1, <2>1 DEF e
  <2> QED
    BY <1>1, <1>3, <2>2 DEF e
<1> QED
  BY <1>8, <1>9

(* The types of all but the folder and the selection, in every step. *)
LEMMA DataStep ==
  ASSUME DataOK, [Next]_vars
  PROVE  DataOK'
<1>0. /\ reading \in {Idle} \cup Reading /\ queue \in Seq(AnyEvent)
      /\ issued \in Nat /\ torn \in BOOLEAN /\ reads \in Nat /\ acts \in Nat
      /\ permit \in {<<>>} \cup (Names \X Names)
  BY DEF DataOK
<1>1. ASSUME UNCHANGED <<disk, pending, permit, reading, queue, issued, torn, changes, reads, acts>>
      PROVE  DataOK'
  BY <1>1, Zenon DEF DataOK
<1>2. CASE Others
  <2>1. /\ UNCHANGED <<permit, reading, queue, issued, reads, acts>>
    BY <1>2 DEF Others, load
  <2>2. /\ disk' \in [Names -> {Absent} \cup 1..MaxChanges + 1]
        /\ pending' \in Seq(Names \cup {Home})
        /\ torn' \in BOOLEAN /\ changes' \in 0..MaxChanges
    BY <1>2, ChangeData DEF Others, Touch, Vanish
  <2> QED
    BY <1>0, <2>1, <2>2, Zenon DEF DataOK
<1>3. CASE Announce
  <2> DEFINE old == permit[1]
             new == permit[2]
             u == [op |-> "Upsert", files |-> [k \in {old} |-> File(new, disk[new])]]
             r == [op |-> "Reveal", key |-> new]
  <2>1. permit # <<>> /\ permit' = <<>> /\ (queue' = queue \/ (disk[new] # Absent /\ queue' = queue \o <<u, r>>))
        /\ UNCHANGED <<disk, pending, reading, issued, torn, changes, reads, acts>>
    BY <1>3 DEF Announce, load
  <2>2. old \in Names /\ new \in Names
    BY <1>0, <2>1
  <2>3. ASSUME disk[new] # Absent PROVE queue \o <<u, r>> \in Seq(AnyEvent)
    <3> DEFINE file == File(new, disk[new])
               files == [k \in {old} |-> file]
    <3>1. file \in Files
      BY <2>2, <2>3, DiskStats
    <3> HIDE DEF file
    <3>2. {old} \in SUBSET Names /\ files \in [{old} -> Files]
      BY <2>2, <3>1
    <3> HIDE DEF files
    <3>3. [op |-> "Upsert", files |-> files] \in AnyEvent
      BY <3>2, NewEvents
    <3>4. u \in AnyEvent
      BY <3>3 DEF files, file
    <3>5. r \in AnyEvent
      BY <2>2, NewEvents
    <3> HIDE DEF u, r
    <3>6. <<u, r>> \in Seq(AnyEvent)
      BY <3>4, <3>5
    <3> QED
      BY <1>0, <3>6, SeqJoins
  <2> HIDE DEF u, r
  <2>4. queue' \in Seq(AnyEvent)
    BY <1>0, <2>1, <2>3
  <2>5. permit' \in {<<>>} \cup (Names \X Names)
    BY <2>1
  <2> QED
    BY <1>0, <2>1, <2>4, <2>5, Zenon DEF DataOK
<1>4. ASSUME NEW n \in Names, CreateFile(n) PROVE DataOK'
  <2> DEFINE d == [op |-> "Delete", keys |-> {n}]
  <2>1. /\ Touch(n) /\ permit' = <<n, n>> /\ (queue' = queue \/ queue' = Append(queue, d))
        /\ UNCHANGED <<reading, issued, reads, acts>>
    BY <1>4 DEF CreateFile, load
  <2>2. /\ disk' \in [Names -> {Absent} \cup 1..MaxChanges + 1]
        /\ pending' \in Seq(Names \cup {Home})
        /\ torn' \in BOOLEAN /\ changes' \in 0..MaxChanges
    BY <2>1, ChangeData DEF Touch
  <2>3. d \in AnyEvent
    <3>1. {n} \in SUBSET Names
      OBVIOUS
    <3> QED
      BY <3>1, NewEvents
  <2> HIDE DEF d
  <2>4. queue' \in Seq(AnyEvent)
    BY <1>0, <2>1, <2>3
  <2>5. permit' \in {<<>>} \cup (Names \X Names)
    BY <2>1
  <2> QED
    BY <1>0, <2>1, <2>2, <2>4, <2>5, Zenon DEF DataOK
<1>5. ASSUME NEW old \in Names, NEW new \in Names, RenameFile(old, new) PROVE DataOK'
  <2>1. /\ Shift(old, new) /\ permit' = <<old, new>>
        /\ UNCHANGED <<queue, reading, issued, reads, acts>>
    BY <1>5 DEF RenameFile, load
  <2>2. /\ disk' \in [Names -> {Absent} \cup 1..MaxChanges + 1]
        /\ pending' \in Seq(Names \cup {Home})
        /\ torn' \in BOOLEAN /\ changes' \in 0..MaxChanges
    BY <2>1, ChangeData
  <2>3. permit' \in {<<>>} \cup (Names \X Names)
    BY <2>1
  <2> QED
    BY <1>0, <2>1, <2>2, <2>3, Zenon DEF DataOK
<1>6. ASSUME NEW k \in 1..Len(pending), Watch(k) PROVE DataOK'
  <2>1. UNCHANGED <<disk, permit, reading, issued, torn, changes, reads, acts>>
    BY <1>6 DEF Watch, load
  <2>2. queue' \in Seq(AnyEvent) /\ pending' \in Seq(Names \cup {Home})
    BY <1>6, WatchData
  <2> QED
    BY <1>0, <2>1, <2>2, Zenon DEF DataOK
<1>7. ASSUME reading # Idle, NEW k \in 1..Len(reading.left), Read(k) PROVE DataOK'
  <2>1. UNCHANGED <<disk, pending, permit, issued, torn, changes, reads, acts>>
    BY <1>7 DEF Read, world
  <2>2. reading' \in {Idle} \cup Reading /\ queue' \in Seq(AnyEvent)
    <3>1. reading' \in Reading /\ queue' \in Seq(AnyEvent)
      BY <1>7, ReadData
    <3> QED
      BY <3>1, Zenon
  <2> QED
    BY <1>0, <2>1, <2>2, Zenon DEF DataOK
<1>8. CASE EndRead
  <2> DEFINE d == [op |-> "Done", ticket |-> reading.ticket]
             u == [op |-> "Full", files |-> reading.got]
  <2>1. /\ reading # Idle /\ reading' = Idle
        /\ queue' = Append(queue, d) \/ queue' = Append(queue, u)
        /\ UNCHANGED <<disk, pending, permit, issued, torn, changes, reads, acts>>
    BY <1>8 DEF EndRead, world
  <2>2. reading.ticket \in Nat /\ reading.got \in Seq(Files)
    BY <1>0, <2>1 DEF Reading
  <2>3. d \in AnyEvent /\ u \in AnyEvent
    BY <2>2, NewEvents
  <2> HIDE DEF d, u
  <2>4. queue' \in Seq(AnyEvent)
    BY <1>0, <2>1, <2>3
  <2>5. reading' \in {Idle} \cup Reading
    BY <2>1, Zenon
  <2> QED
    BY <1>0, <2>1, <2>4, <2>5, Zenon DEF DataOK
<1>9. CASE UpdateLoad
  <2>1. queue' \in Seq(AnyEvent)
    BY <1>0, <1>9, TakenEvent DEF UpdateLoad
  <2>2. issued' \in Nat /\ UNCHANGED <<disk, pending, permit, reading, torn, changes, reads, acts>>
    BY <1>0, <1>9 DEF UpdateLoad, world
  <2> QED
    BY <1>0, <2>1, <2>2, Zenon DEF DataOK
<1>10. CASE UpdateUpserted \/ Invalidate
  <2>1. queue' \in Seq(AnyEvent)
    BY <1>0, <1>10, TakenEvent DEF UpdateUpserted, Invalidate
  <2>2. UNCHANGED <<disk, pending, permit, reading, issued, torn, changes, reads, acts>>
    BY <1>10 DEF UpdateUpserted, Invalidate, world, load
  <2> QED
    BY <1>0, <2>1, <2>2, Zenon DEF DataOK
<1>11. CASE UpdateDeleted \/ Reveal
  <2>1. queue' \in Seq(AnyEvent)
    BY <1>0, <1>11, TakenEvent DEF UpdateDeleted, Reveal
  <2>2. UNCHANGED <<disk, pending, permit, changes, acts>>
    BY <1>11 DEF UpdateDeleted, Reveal, world
  <2>3. (\E f : Ask(f)) \/ UNCHANGED <<reading, issued, reads, torn>>
    BY <1>11 DEF UpdateDeleted, Reveal, Cd, load
  <2>4. reading' \in {Idle} \cup Reading /\ issued' \in Nat /\ reads' \in Nat /\ torn' \in BOOLEAN
    <3>1. CASE \E f : Ask(f)
      BY <1>0, <3>1, AskData
    <3>2. CASE UNCHANGED <<reading, issued, reads, torn>>
      BY <1>0, <3>2, Zenon
    <3> QED
      BY <2>3, <3>1, <3>2
  <2> QED
    BY <1>0, <2>1, <2>2, <2>4, Zenon DEF DataOK
<1>12. CASE User
  <2>1. UNCHANGED <<disk, pending, permit, changes, queue>> /\ acts' = acts + 1
    BY <1>12 DEF User, Move, SortBy, ToggleHidden, FilterDo, Select, Go, Focus, Act, world
  <2>2. acts' \in Nat
    BY <1>0, <2>1
  <2>3. (\E f : Ask(f)) \/ UNCHANGED <<reading, issued, reads, torn>>
    BY <1>12 DEF User, Move, SortBy, ToggleHidden, FilterDo, Select, Go, Focus, Cd, load
  <2>4. reading' \in {Idle} \cup Reading /\ issued' \in Nat /\ reads' \in Nat /\ torn' \in BOOLEAN
    <3>1. CASE \E f : Ask(f)
      BY <1>0, <3>1, AskData
    <3>2. CASE UNCHANGED <<reading, issued, reads, torn>>
      BY <1>0, <3>2, Zenon
    <3> QED
      BY <2>3, <3>1, <3>2
  <2> QED
    BY <1>0, <2>1, <2>2, <2>4, Zenon DEF DataOK
<1>13. CASE UNCHANGED vars
  BY <1>1, <1>13 DEF vars, world, load
<1> QED
  BY <1>2, <1>3, <1>4, <1>5, <1>6, <1>7, <1>8, <1>9, <1>10, <1>11, <1>12, <1>13 DEF Next, Deliver
-----------------------------------------------------------------------------
(* The steps together. *)

(* An empty folder is one whose cursor is in view. *)
LEMMA EmptyFacts ==
  ASSUME NEW show \in BOOLEAN
  PROVE  LET f == Empty(show) IN
         f \in Folder /\ ~f.bumped /\ InView(f) /\ f.stage = "Loading"
<1> DEFINE none == <<>>
           f == Empty(show)
<1>1. none \in Seq(Files)
  OBVIOUS
<1>2. f = [items |-> none, hidden |-> none, ticket |-> 0, unsorted |-> FALSE, bumped |-> FALSE,
           by |-> "name", filter |-> FALSE, show |-> show, stage |-> "Loading",
           cursor |-> 0, offset |-> 0, trace |-> None, stale |-> FALSE]
  BY DEF Empty
<1> HIDE DEF none
<1>3. f \in Folder
  BY <1>1, <1>2 DEF Folder
<1>4. f.items = none /\ f.cursor = 0 /\ f.offset = 0 /\ f.bumped = FALSE /\ f.stage = "Loading"
  BY <1>2
<1> HIDE DEF f
<1>5. InView(f)
  BY <1>4, LimitFacts DEF InView, none
<1> QED
  BY <1>3, <1>4, <1>5 DEF f

(* The types hold at first, *)
LEMMA HomeInit == Init => DataOK /\ HomeOK
<1> SUFFICES ASSUME Init PROVE DataOK /\ HomeOK
  OBVIOUS
<1> DEFINE e == [op |-> "Part", files |-> <<>>, ticket |-> 1]
<1>1. disk \in [Names -> {Absent} \cup 1..MaxChanges + 1] /\ changes \in 0..MaxChanges
  BY TabAssumption DEF Init
<1>2. pending \in Seq(Names \cup {Home}) /\ permit \in {<<>>} \cup (Names \X Names)
  BY DEF Init
<1>3. reading \in {Idle} \cup Reading
  <2>1. Begin(1, TRUE) \in Reading
    <3>1. 1 \in Nat \ {0} /\ TRUE \in BOOLEAN
      OBVIOUS
    <3> QED
      BY <3>1, BeginFacts
  <2> QED
    BY <2>1, Zenon DEF Init
<1>4. queue \in Seq(AnyEvent)
  <2> DEFINE none == <<>>
  <2>1. none \in Seq(Files) /\ 1 \in Nat
    OBVIOUS
  <2> HIDE DEF none
  <2>2. [op |-> "Part", files |-> none, ticket |-> 1] \in AnyEvent
    BY <2>1, NewEvents
  <2>3. e \in AnyEvent
    BY <2>2 DEF none
  <2>4. queue = <<e>>
    BY DEF Init
  <2> HIDE DEF e
  <2> QED
    BY <2>3, <2>4
<1>5. issued \in Nat /\ torn \in BOOLEAN /\ reads \in Nat /\ acts \in Nat
  BY DEF Init
<1>6. home \in Folder /\ ~home.bumped /\ InView(home)
  <2> DEFINE show == FALSE
  <2>1. show \in BOOLEAN /\ home = Empty(show)
    BY DEF Init
  <2> HIDE DEF show
  <2> QED
    BY <2>1, EmptyFacts
<1>7. cwd \in Spots /\ PrefOK
  BY DEF Init, Spots, PrefOK
<1> QED
  BY <1>1, <1>2, <1>3, <1>4, <1>5, <1>6, <1>7, Zenon DEF DataOK, HomeOK

(* In each step the cursor follows or nothing has changed that is seen,    *)
(* but for the filter.                                                     *)
LEMMA HomeStep ==
  ASSUME DataOK, HomeOK, StackInv, [Next]_vars
  PROVE  HomeMoves /\ PrefOK'
<1>1. ASSUME UNCHANGED <<home, cwd, pref>> PROVE HomeMoves /\ PrefOK'
  BY <1>1 DEF HomeOK, HomeMoves, PrefOK
<1>2. ASSUME UNCHANGED pref PROVE PrefOK'
  BY <1>2 DEF HomeOK, PrefOK
<1>3. CASE Others \/ Announce \/ (\E n \in Names : CreateFile(n))
           \/ (\E old, new \in Names : RenameFile(old, new))
           \/ (\E k \in 1..Len(pending) : Watch(k)) \/ (\E k : Read(k)) \/ EndRead \/ Select
  <2>1. UNCHANGED <<home, cwd, pref>>
    BY <1>3 DEF Others, Announce, CreateFile, RenameFile, Watch, Read, EndRead, Select, place
  <2> QED
    BY <1>1, <2>1
<1>4. CASE UpdateLoad
  <2>1. pref' = pref
    BY <1>4 DEF UpdateLoad
  <2> QED
    BY <1>2, <1>4, <2>1, LoadMoves
<1>5. CASE UpdateUpserted
  <2>1. pref' = pref
    BY <1>5 DEF UpdateUpserted
  <2> QED
    BY <1>2, <1>5, <2>1, UpsertMoves
<1>6. CASE UpdateDeleted
  <2>1. pref' = pref
    BY <1>6 DEF UpdateDeleted
  <2> QED
    BY <1>2, <1>6, <2>1, DeleteMoves
<1>7. CASE Invalidate
  <2>1. pref' = pref
    BY <1>7 DEF Invalidate
  <2> QED
    BY <1>2, <1>7, <2>1, InvalidateMoves
<1>8. CASE Reveal
  <2>1. pref' = pref
    BY <1>8 DEF Reveal
  <2> QED
    BY <1>2, <1>8, <2>1, RevealMoves
<1>9. ASSUME NEW n \in {-1, 1}, Move(n) PROVE HomeMoves /\ PrefOK'
  <2>1. pref' = pref
    BY <1>9 DEF Move
  <2> QED
    BY <1>2, <1>9, <2>1, MoveBrowses DEF Browses
<1>10. CASE ToggleHidden \/ \E by \in {"name", "time"} : SortBy(by)
  BY <1>10, PreferBrowses DEF Browses
<1>11. CASE FilterDo
  <2>1. pref' = pref
    BY <1>11 DEF FilterDo
  <2> QED
    BY <1>2, <1>11, <2>1, FilterBrowses DEF Browses
<1>12. CASE Go
  <2>1. pref' = pref
    BY <1>12 DEF Go
  <2> QED
    BY <1>2, <1>12, <2>1, GoBrowses DEF Browses
<1>13. CASE Focus
  <2>1. pref' = pref
    BY <1>13 DEF Focus
  <2> QED
    BY <1>2, <1>13, <2>1, FocusBrowses DEF Browses
<1>14. CASE UNCHANGED vars
  BY <1>1, <1>14 DEF vars, place
<1> QED
  BY <1>3, <1>4, <1>5, <1>6, <1>7, <1>8, <1>9, <1>10, <1>11, <1>12, <1>13, <1>14 DEF Next, Deliver, User

TabInv == DataOK /\ HomeOK /\ StackInv

(* and in every step. *)
LEMMA TabStep == TabInv /\ [Next]_vars => TabInv' /\ HomeMoves
<1> SUFFICES ASSUME TabInv, [Next]_vars PROVE TabInv' /\ HomeMoves
  OBVIOUS
<1>1. DataOK'
  BY DataStep DEF TabInv
<1>2. StackInv'
  BY StackStep DEF TabInv
<1>3. HomeMoves /\ PrefOK'
  BY HomeStep DEF TabInv
<1>4. HomeOK'
  BY <1>3 DEF HomeMoves, HomeOK
<1> QED
  BY <1>1, <1>2, <1>3, <1>4 DEF TabInv

(* A step in which an item, the cursor or the place of the tab changes,    *)
(* unless the filter brings it, leaves the cursor on the file it is bound  *)
(* to, if that is listed, and in view.                                     *)
THEOREM TheCursorFollows == Spec => CursorFollows
<1>1. Init => TabInv
  BY HomeInit, StackInit DEF TabInv
<1>2. ASSUME HomeMoves
      PROVE  home'.filter = home.filter
               /\ <<home.items, home.cursor, cwd>>' # <<home.items, home.cursor, cwd>> => Followed'
  <2> SUFFICES ASSUME FollowedIn(home', cwd') PROVE Followed'
    BY <1>2 DEF HomeMoves
  <2> QED
    BY DEF FollowedIn, InView, Followed
<1>3. TabInv /\ [Next]_vars
        => TabInv' /\ [home'.filter = home.filter
                         /\ <<home.items, home.cursor, cwd>>' # <<home.items, home.cursor, cwd>>
                       => Followed']_vars
  BY <1>2, TabStep
<1> QED
  BY <1>1, <1>3, PTL DEF Spec, CursorFollows
-----------------------------------------------------------------------------
(* The selection. *)

Selectable  == Paths(Names) \cup {Inside(d) : d \in Dirs}
CountedDirs == {<<>>} \cup Paths(Dirs)

(* A sequence of one. *)
LEMMA OneLong ==
  ASSUME NEW S, NEW t \in Seq(S), Len(t) = 1
  PROVE  t = <<t[1]>>
<1> DEFINE u == <<t[1]>>
<1>1. t[1] \in S /\ DOMAIN t = 1..1
  OBVIOUS
<1>2. u \in Seq(S) /\ Len(u) = 1 /\ u[1] = t[1] /\ DOMAIN u = 1..1
  BY <1>1
<1>3. \A i \in 1..1 : t[i] = u[i]
  BY <1>2
<1>4. t = [i \in DOMAIN t |-> t[i]]
  OBVIOUS
<1> HIDE DEF u
<1>5. u = [i \in DOMAIN u |-> u[i]]
  BY <1>2
<1>6. t = u
  BY <1>1, <1>2, <1>3, <1>4, <1>5
<1> QED
  BY <1>6 DEF u

(* The ancestors of a path are its beginnings. *)
LEMMA AncestorsOf ==
  ASSUME NEW s, NEW n \in {1, 2}, Len(s) \in {n}
  PROVE  /\ n = 1 => Ancestors(s) = {SubSeq(s, 1, 0)}
         /\ n = 2 => Ancestors(s) = {SubSeq(s, 1, 0), SubSeq(s, 1, 1)}
<1>1. \A x : x \in Ancestors(s) <=> \E i \in 0..Len(s)-1 : x = SubSeq(s, 1, i)
  BY DEF Ancestors
<1>2. ASSUME n = 1 PROVE Ancestors(s) = {SubSeq(s, 1, 0)}
  <2>1. Len(s) - 1 = 0 /\ 0 \in 0..0 /\ \A i \in 0..0 : i = 0
    BY <1>2
  <2>2. \A x : x \in Ancestors(s) => x = SubSeq(s, 1, 0)
    BY <1>1, <2>1
  <2>3. SubSeq(s, 1, 0) \in Ancestors(s)
    BY <1>1, <2>1
  <2> QED
    BY <2>2, <2>3
<1>3. ASSUME n = 2 PROVE Ancestors(s) = {SubSeq(s, 1, 0), SubSeq(s, 1, 1)}
  <2>1. Len(s) - 1 = 1 /\ 0 \in 0..1 /\ 1 \in 0..1 /\ \A i \in 0..1 : i = 0 \/ i = 1
    BY <1>3
  <2>2. \A x : x \in Ancestors(s) => x = SubSeq(s, 1, 0) \/ x = SubSeq(s, 1, 1)
    BY <1>1, <2>1
  <2>3. SubSeq(s, 1, 0) \in Ancestors(s) /\ SubSeq(s, 1, 1) \in Ancestors(s)
    BY <1>1, <2>1
  <2> QED
    BY <2>2, <2>3
<1> QED
  BY <1>2, <1>3

(* The paths that can be selected, and their ancestors. *)
LEMMA PathFacts ==
  /\ \A k : Ancestors(<<k>>) = {<<>>} /\ Len(<<k>>) = 1 /\ <<k>>[1] = k
  /\ \A d : Ancestors(Inside(d)) = {<<>>, <<d>>} /\ Len(Inside(d)) = 2
  /\ \A k, K : <<k>> \in Paths(K) <=> k \in K
  /\ \A k, d : <<k>> # Inside(d) /\ <<k>> # <<>> /\ Inside(d) # <<>>
<1>1. ASSUME NEW k PROVE Ancestors(<<k>>) = {<<>>} /\ Len(<<k>>) = 1 /\ <<k>>[1] = k
  <2> DEFINE s == <<k>>
  <2>1. Len(s) = 1 /\ s[1] = k
    OBVIOUS
  <2>2. SubSeq(s, 1, 0) = <<>>
    OBVIOUS
  <2> HIDE DEF s
  <2>3. Ancestors(s) = {SubSeq(s, 1, 0)}
    BY <2>1, AncestorsOf
  <2> QED
    BY <2>1, <2>2, <2>3, Zenon DEF s
<1>2. ASSUME NEW d PROVE Ancestors(Inside(d)) = {<<>>, <<d>>} /\ Len(Inside(d)) = 2
  <2> DEFINE s == <<d, "inside">>
             S == {d, "inside"}
             t == SubSeq(s, 1, 1)
  <2>1. Len(s) = 2 /\ s[1] = d /\ s \in Seq(S)
    OBVIOUS
  <2>2. SubSeq(s, 1, 0) = <<>>
    OBVIOUS
  <2> HIDE DEF s, S
  <2>3. Ancestors(s) = {SubSeq(s, 1, 0), SubSeq(s, 1, 1)}
    BY <2>1, AncestorsOf
  <2>4. t \in Seq(S) /\ Len(t) = 1 /\ t[1] = d
    BY <2>1
  <2> HIDE DEF t
  <2>5. t = <<t[1]>>
    BY <2>4, OneLong
  <2>6. t = <<d>>
    BY <2>4, <2>5, Zenon
  <2> QED
    BY <2>1, <2>2, <2>3, <2>6, Zenon DEF s, t, Inside
<1>3. ASSUME NEW k, NEW K PROVE <<k>> \in Paths(K) <=> k \in K
  BY DEF Paths
<1>4. ASSUME NEW k, NEW d PROVE <<k>> # Inside(d) /\ <<k>> # <<>> /\ Inside(d) # <<>>
  BY DEF Inside
<1> QED
  BY <1>1, <1>2, <1>3, <1>4

(* What is selected lies under directories that are counted, is no ancestor *)
(* of itself, and is one of finitely many.                                 *)
LEMMA SelectableFacts ==
  /\ IsFiniteSet(Selectable)
  /\ \A p \in Selectable : Ancestors(p) \subseteq CountedDirs /\ p \notin Ancestors(p)
<1>1. IsFiniteSet(Paths(Names))
  <2> DEFINE g == [k \in Names |-> <<k>>]
  <2>1. g \in Surjection(Names, Paths(Names))
    BY DEF Surjection, Paths
  <2> QED
    BY <2>1, NamesFinite, FS_Surjection
<1>2. IsFiniteSet({Inside(d) : d \in Dirs})
  <2> DEFINE S == {Inside(d) : d \in Dirs}
             g == [d \in Dirs |-> Inside(d)]
  <2>1. g \in Surjection(Dirs, S)
    BY DEF Surjection
  <2>2. IsFiniteSet(Dirs)
    BY NamesFinite, FS_Subset, TabAssumption
  <2> HIDE DEF S, g
  <2>3. IsFiniteSet(S)
    BY <2>1, <2>2, FS_Surjection
  <2> QED
    BY <2>3 DEF S
<1>3. IsFiniteSet(Selectable)
  BY <1>1, <1>2, FS_Union DEF Selectable
<1>4. ASSUME NEW p \in Selectable PROVE Ancestors(p) \subseteq CountedDirs /\ p \notin Ancestors(p)
  <2>1. ASSUME NEW k \in Names, p = <<k>> PROVE Ancestors(p) \subseteq CountedDirs /\ p \notin Ancestors(p)
    BY <2>1, PathFacts DEF CountedDirs
  <2>2. ASSUME NEW d \in Dirs, p = Inside(d) PROVE Ancestors(p) \subseteq CountedDirs /\ p \notin Ancestors(p)
    <3>1. Ancestors(p) = {<<>>, <<d>>} /\ p # <<>> /\ p # <<d>> /\ <<d>> \in Paths(Dirs)
      BY <2>2, PathFacts
    <3> QED
      BY <3>1 DEF CountedDirs
  <2> QED
    BY <2>1, <2>2 DEF Selectable, Paths
<1> QED
  BY <1>3, <1>4

(* No directory is selected with a file in it, and each is counted right.  *)
Under(inner, u) == {p \in inner : u \in Ancestors(p)}
SelectedOK(sel) ==
  /\ sel = [inner |-> sel.inner, parents |-> sel.parents]
  /\ sel.inner \in SUBSET Selectable
  /\ sel.parents = [u \in CountedDirs |-> Cardinality(Under(sel.inner, u))]
  /\ \A p \in sel.inner : Ancestors(p) \cap sel.inner = {}

(* Files of one directory. *)
Siblings(paths) == paths \in SUBSET Selectable /\ \E A : \A p \in paths : Ancestors(p) = A

(* The children of Home are in one directory, and so is a single file. *)
LEMMA SiblingFacts ==
  /\ \A K \in SUBSET Names : Siblings(Paths(K))
  /\ \A p \in Selectable : Siblings({p})
<1>1. ASSUME NEW K \in SUBSET Names PROVE Siblings(Paths(K))
  <2>1. Paths(K) \in SUBSET Selectable
    BY DEF Paths, Selectable
  <2>2. \A p \in Paths(K) : Ancestors(p) = {<<>>}
    BY PathFacts DEF Paths
  <2> QED
    BY <2>1, <2>2 DEF Siblings
<1>2. ASSUME NEW p \in Selectable PROVE Siblings({p})
  BY DEF Siblings
<1> QED
  BY <1>1, <1>2

(* The counts are of finite sets, so they are natural numbers. *)
LEMMA UnderFacts ==
  ASSUME NEW sel, SelectedOK(sel)
  PROVE  /\ IsFiniteSet(sel.inner)
         /\ \A u : IsFiniteSet(Under(sel.inner, u)) /\ Cardinality(Under(sel.inner, u)) \in Nat
         /\ \A u : Cardinality(Under(sel.inner, u)) = 0 <=> Under(sel.inner, u) = {}
         /\ sel \in [inner : SUBSET Selectable, parents : [CountedDirs -> Nat]]
<1>1. IsFiniteSet(sel.inner)
  BY SelectableFacts, FS_Subset DEF SelectedOK
<1>2. ASSUME NEW u PROVE IsFiniteSet(Under(sel.inner, u)) /\ Cardinality(Under(sel.inner, u)) \in Nat
  <2>1. Under(sel.inner, u) \subseteq sel.inner
    BY DEF Under
  <2> HIDE DEF Under
  <2> QED
    BY <1>1, <2>1, FS_Subset, FS_CardinalityType
<1>3. ASSUME NEW u PROVE Cardinality(Under(sel.inner, u)) = 0 <=> Under(sel.inner, u) = {}
  BY <1>2, FS_EmptySet
<1>4. sel.parents \in [CountedDirs -> Nat]
  BY <1>2 DEF SelectedOK
<1> HIDE DEF Under
<1>5. sel \in [inner : SUBSET Selectable, parents : [CountedDirs -> Nat]]
  BY <1>4 DEF SelectedOK
<1> QED
  BY <1>1, <1>2, <1>3, <1>5
(* Deselecting files of one directory leaves the selection in order, *)
LEMMA RemoveFacts ==
  ASSUME NEW sel, SelectedOK(sel), NEW paths, Siblings(paths)
  PROVE  SelectedOK(RemoveSame(sel, paths)) /\ RemoveSame(sel, paths).inner = sel.inner \ paths
<1> DEFINE hit == paths \cap sel.inner
           above == UNION {Ancestors(p) : p \in paths}
           inner == sel.inner \ paths
           parents == Count(sel, above, -Cardinality(hit))
           r == [inner |-> inner, parents |-> parents]
<1>1. /\ RemoveSame(sel, paths) = r
      /\ r.inner = inner /\ r.parents = parents
  BY DEF RemoveSame
<1>2. PICK A : \A p \in paths : Ancestors(p) = A
  BY DEF Siblings
<1>3. /\ IsFiniteSet(sel.inner)
      /\ \A u : IsFiniteSet(Under(sel.inner, u)) /\ Cardinality(Under(sel.inner, u)) \in Nat
  BY UnderFacts
<1>4. IsFiniteSet(hit) /\ Cardinality(hit) \in Nat /\ (hit = {} => Cardinality(hit) = 0)
  <2>1. hit \subseteq sel.inner
    OBVIOUS
  <2> HIDE DEF hit
  <2> QED
    BY <1>3, <2>1, FS_Subset, FS_CardinalityType, FS_EmptySet
<1>5. sel.parents = [u \in CountedDirs |-> Cardinality(Under(sel.inner, u))]
  BY DEF SelectedOK
<1>6. parents = [u \in CountedDirs |-> Cardinality(Under(sel.inner, u)) + IF u \in above THEN -Cardinality(hit) ELSE 0]
  <2> HIDE DEF above, hit
  <2>1. DOMAIN sel.parents = CountedDirs
    BY <1>5
  <2> QED
    BY <1>5, <2>1 DEF Count
<1>7. ASSUME NEW u \in CountedDirs
      PROVE  Cardinality(Under(inner, u))
               = Cardinality(Under(sel.inner, u)) + IF u \in above THEN -Cardinality(hit) ELSE 0
  <2>1. Cardinality(Under(sel.inner, u)) \in Nat /\ IsFiniteSet(Under(sel.inner, u))
    BY <1>3
  <2>2. CASE u \in A /\ paths # {}
    <3>1. u \in above /\ \A p \in paths : u \in Ancestors(p)
      BY <1>2, <2>2
    <3>2. Under(inner, u) = Under(sel.inner, u) \ hit /\ Under(sel.inner, u) \cap hit = hit
      BY <3>1 DEF Under
    <3> HIDE DEF Under, inner, above, hit
    <3>3. Cardinality(Under(inner, u)) = Cardinality(Under(sel.inner, u)) - Cardinality(hit)
      BY <2>1, <3>2, FS_Difference
    <3> QED
      BY <1>4, <2>1, <3>1, <3>3
  <2>3. CASE ~(u \in A /\ paths # {})
    <3>1. \A p \in paths : u \notin Ancestors(p)
      BY <1>2, <2>3
    <3>2. Under(inner, u) = Under(sel.inner, u) /\ u \notin above
      BY <3>1 DEF Under
    <3> HIDE DEF Under, inner, above, hit
    <3> QED
      BY <2>1, <3>2
  <2> QED
    BY <2>2, <2>3
<1>8. parents = [u \in CountedDirs |-> Cardinality(Under(inner, u))]
  <2> HIDE DEF parents, inner, above, hit, Under
  <2> QED
    BY <1>6, <1>7
<1>9. inner \in SUBSET Selectable /\ \A p \in inner : Ancestors(p) \cap inner = {}
  BY DEF SelectedOK
<1> HIDE DEF inner, parents
<1>10. SelectedOK(r)
  BY <1>8, <1>9 DEF SelectedOK
<1> QED
  BY <1>1, <1>10 DEF inner

(* and so does selecting them. *)
LEMMA AddFacts ==
  ASSUME NEW sel, SelectedOK(sel), NEW paths, Siblings(paths)
  PROVE  SelectedOK(AddSame(sel, paths)) /\ AddSame(sel, paths).inner \subseteq sel.inner \cup paths
<1> DEFINE free == {p \in paths : p \in DOMAIN sel.parents => sel.parents[p] = 0}
           new == free \ sel.inner
           above == UNION {Ancestors(p) : p \in free}
           inner == sel.inner \cup free
           parents == Count(sel, above, Cardinality(new))
           r == [inner |-> inner, parents |-> parents]
<1>1. AddSame(sel, paths) = IF free = {} \/ above \cap sel.inner # {} THEN sel ELSE r
  BY DEF AddSame
<1>2. CASE free = {} \/ above \cap sel.inner # {}
  BY <1>1, <1>2
<1>3. CASE free # {} /\ above \cap sel.inner = {}
  <2>1. PICK A : \A p \in free : Ancestors(p) = A
    BY DEF Siblings
  <2>2. above = A
    BY <1>3, <2>1
  <2>3. /\ IsFiniteSet(sel.inner)
        /\ \A u : IsFiniteSet(Under(sel.inner, u)) /\ Cardinality(Under(sel.inner, u)) \in Nat
        /\ \A u : Cardinality(Under(sel.inner, u)) = 0 <=> Under(sel.inner, u) = {}
    BY UnderFacts
  <2>4. sel.parents = [u \in CountedDirs |-> Cardinality(Under(sel.inner, u))]
        /\ sel.inner \in SUBSET Selectable /\ free \in SUBSET Selectable
        /\ \A p \in sel.inner : Ancestors(p) \cap sel.inner = {}
    BY DEF SelectedOK, Siblings
  <2>5. \A p \in free, q \in sel.inner : p \notin Ancestors(q)
    <3> SUFFICES ASSUME NEW p \in free, NEW q \in sel.inner, p \in Ancestors(q) PROVE FALSE
      OBVIOUS
    <3>1. p \in CountedDirs
      BY <2>4, SelectableFacts
    <3>2. sel.parents[p] = 0
      BY <2>4, <3>1
    <3>3. Cardinality(Under(sel.inner, p)) = 0
      BY <2>4, <3>1, <3>2
    <3>4. q \in Under(sel.inner, p)
      BY DEF Under
    <3> QED
      BY <2>3, <3>3, <3>4
  <2>6. \A p, q \in free : p \notin Ancestors(q)
    BY <2>1, <2>4, SelectableFacts
  <2>7. \A p \in inner : Ancestors(p) \cap inner = {}
    <3>1. \A p \in free, q \in sel.inner : q \notin Ancestors(p)
      BY <1>3, <2>1, <2>2
    <3>2. \A p, q \in sel.inner : q \notin Ancestors(p)
      BY <2>4
    <3> HIDE DEF free
    <3> QED
      BY <2>5, <2>6, <3>1, <3>2
  <2>8. inner \in SUBSET Selectable
    BY <2>4
  <2>9. IsFiniteSet(new) /\ Cardinality(new) \in Nat
    <3>1. new \subseteq Selectable
      BY <2>4
    <3> HIDE DEF new
    <3> QED
      BY <3>1, SelectableFacts, FS_Subset, FS_CardinalityType
  <2>10. parents = [u \in CountedDirs |-> Cardinality(Under(sel.inner, u)) + IF u \in above THEN Cardinality(new) ELSE 0]
    <3> HIDE DEF above, new
    <3>1. DOMAIN sel.parents = CountedDirs
      BY <2>4
    <3> QED
      BY <2>4, <3>1 DEF Count
  <2>11. ASSUME NEW u \in CountedDirs
         PROVE  Cardinality(Under(inner, u))
                  = Cardinality(Under(sel.inner, u)) + IF u \in above THEN Cardinality(new) ELSE 0
    <3>1. Cardinality(Under(sel.inner, u)) \in Nat /\ IsFiniteSet(Under(sel.inner, u))
      BY <2>3
    <3>2. CASE u \in above
      <4>1. \A p \in free : u \in Ancestors(p)
        BY <2>1, <2>2, <3>2
      <4>2. Under(inner, u) = Under(sel.inner, u) \cup new /\ Under(sel.inner, u) \cap new = {}
        <5> HIDE DEF free
        <5> QED
          BY <4>1 DEF Under
      <4>3. Cardinality({}) = 0
        BY FS_EmptySet
      <4> HIDE DEF Under, inner, above, new
      <4>4. Cardinality(Under(sel.inner, u) \cup new)
              = Cardinality(Under(sel.inner, u)) + Cardinality(new) - Cardinality(Under(sel.inner, u) \cap new)
        BY <2>9, <3>1, FS_Union
      <4>5. Cardinality(Under(sel.inner, u) \cap new) = 0
        BY <4>2, <4>3, Zenon
      <4>6. Cardinality(Under(inner, u)) = Cardinality(Under(sel.inner, u) \cup new)
        BY <4>2, Zenon
      <4>7. Cardinality(Under(inner, u)) = Cardinality(Under(sel.inner, u)) + Cardinality(new)
        BY <2>9, <3>1, <4>4, <4>5, <4>6
      <4> QED
        BY <3>2, <4>7
    <3>3. CASE u \notin above
      <4>1. \A p \in free : u \notin Ancestors(p)
        BY <2>1, <2>2, <3>3
      <4>2. Under(inner, u) = Under(sel.inner, u)
        <5> HIDE DEF free
        <5> QED
          BY <4>1 DEF Under
      <4> HIDE DEF Under, inner, above, new
      <4> QED
        BY <3>1, <3>3, <4>2
    <3> QED
      BY <3>2, <3>3
  <2>12. parents = [u \in CountedDirs |-> Cardinality(Under(inner, u))]
    <3> HIDE DEF parents, inner, above, new, Under
    <3> QED
      BY <2>10, <2>11
  <2> HIDE DEF inner, parents
  <2>13. SelectedOK(r)
    BY <2>7, <2>8, <2>12 DEF SelectedOK
  <2>14. r.inner \subseteq sel.inner \cup paths
    BY DEF inner
  <2> QED
    BY <1>1, <1>3, <2>13, <2>14
<1> QED
  BY <1>2, <1>3
(* The selected children of Home. *)
LEMMA ChildrenFacts ==
  ASSUME NEW sel, SelectedOK(sel)
  PROVE  /\ Children(sel) \in SUBSET Names
         /\ \A k : k \in Children(sel) <=> <<k>> \in sel.inner
<1>1. ASSUME NEW p \in sel.inner, Len(p) = 1 PROVE \E k \in Names : p = <<k>> /\ p[1] = k
  <2>1. p \in Selectable
    BY DEF SelectedOK
  <2>2. ASSUME NEW d \in Dirs, p = Inside(d) PROVE FALSE
    <3>1. Len(p) = 2
      BY <2>2, PathFacts
    <3> QED
      BY <1>1, <3>1
  <2>3. p \in Paths(Names)
    BY <2>1, <2>2 DEF Selectable
  <2>4. PICK k \in Names : p = <<k>>
    BY <2>3 DEF Paths
  <2>5. p[1] = k
    BY <2>4
  <2> QED
    BY <2>4, <2>5
<1>2. ASSUME NEW k \in Children(sel) PROVE k \in Names /\ <<k>> \in sel.inner
  <2>1. PICK p \in sel.inner : Len(p) = 1 /\ k = p[1]
    BY DEF Children
  <2> QED
    BY <1>1, <2>1
<1>3. ASSUME NEW k, <<k>> \in sel.inner PROVE k \in Children(sel)
  <2> DEFINE p == <<k>>
  <2>1. Len(p) = 1 /\ p[1] = k /\ p \in sel.inner
    BY <1>3
  <2> HIDE DEF p
  <2> QED
    BY <2>1 DEF Children
<1> QED
  BY <1>2, <1>3

(* Children are deselected, or selected, as a whole. *)
LEMMA ChildrenGo ==
  ASSUME NEW sel, SelectedOK(sel), NEW K \in SUBSET Names
  PROVE  /\ SelectedOK(RemoveSame(sel, Paths(K)))
         /\ Children(RemoveSame(sel, Paths(K))) = Children(sel) \ K
         /\ SelectedOK(AddSame(sel, Paths(K)))
         /\ Children(AddSame(sel, Paths(K))) \subseteq Children(sel) \cup K
<1>1. Siblings(Paths(K))
  BY SiblingFacts
<1>2. \A k : <<k>> \in Paths(K) <=> k \in K
  BY PathFacts
<1> DEFINE r == RemoveSame(sel, Paths(K))
           a == AddSame(sel, Paths(K))
<1>3. SelectedOK(r) /\ r.inner = sel.inner \ Paths(K)
  BY <1>1, RemoveFacts
<1>4. SelectedOK(a) /\ a.inner \subseteq sel.inner \cup Paths(K)
  BY <1>1, AddFacts
<1> HIDE DEF r, a
<1>5. Children(r) = Children(sel) \ K
  <2>1. \A k : k \in Children(r) <=> <<k>> \in r.inner
    BY <1>3, ChildrenFacts
  <2>2. \A k : k \in Children(sel) <=> <<k>> \in sel.inner
    BY ChildrenFacts
  <2> QED
    BY <1>2, <1>3, <2>1, <2>2
<1>6. Children(a) \subseteq Children(sel) \cup K
  <2>1. \A k : k \in Children(a) <=> <<k>> \in a.inner
    BY <1>4, ChildrenFacts
  <2>2. \A k : k \in Children(sel) <=> <<k>> \in sel.inner
    BY ChildrenFacts
  <2> QED
    BY <1>2, <1>4, <2>1, <2>2
<1> QED
  BY <1>3, <1>4, <1>5, <1>6 DEF r, a

(* What the operations on Home leave of them, *)
LEMMA ReconcileFacts ==
  ASSUME NEW sel, SelectedOK(sel)
  PROVE  /\ \A K : SelectedOK(Scan(sel, K)) /\ Children(Scan(sel, K)) \subseteq K
         /\ \A K : SelectedOK(Delete(sel, K)) /\ Children(Delete(sel, K)) = Children(sel) \ K
         /\ \A K \in SUBSET Names : \A files \in [K -> Files] :
              /\ SelectedOK(Rename(sel, files))
              /\ \A n \in Children(Rename(sel, files)) :
                   \/ \E k \in K : files[k].key = n
                   \/ n \in Children(sel) \ K
<1>1. Children(sel) \in SUBSET Names
  BY ChildrenFacts
<1>2. ASSUME NEW K PROVE SelectedOK(Scan(sel, K)) /\ Children(Scan(sel, K)) \subseteq K
  <2> DEFINE gone == Children(sel) \ K
  <2>1. gone \in SUBSET Names /\ Scan(sel, K) = RemoveSame(sel, Paths(gone))
    BY <1>1 DEF Scan
  <2>2. SelectedOK(RemoveSame(sel, Paths(gone))) /\ Children(RemoveSame(sel, Paths(gone))) = Children(sel) \ gone
    <3> HIDE DEF gone
    <3> QED
      BY <2>1, ChildrenGo
  <2> QED
    BY <2>1, <2>2
<1>3. ASSUME NEW K PROVE SelectedOK(Delete(sel, K)) /\ Children(Delete(sel, K)) = Children(sel) \ K
  <2> DEFINE gone == Children(sel) \cap K
  <2>1. gone \in SUBSET Names /\ Delete(sel, K) = RemoveSame(sel, Paths(gone))
    BY <1>1 DEF Delete
  <2>2. SelectedOK(RemoveSame(sel, Paths(gone))) /\ Children(RemoveSame(sel, Paths(gone))) = Children(sel) \ gone
    <3> HIDE DEF gone
    <3> QED
      BY <2>1, ChildrenGo
  <2> QED
    BY <2>1, <2>2
<1>4. ASSUME NEW K \in SUBSET Names, NEW files \in [K -> Files]
      PROVE  /\ SelectedOK(Rename(sel, files))
             /\ \A n \in Children(Rename(sel, files)) :
                  \/ \E k \in K : files[k].key = n
                  \/ n \in Children(sel) \ K
  <2> DEFINE hit == Children(sel) \cap DOMAIN files
             moved == {k \in hit : files[k].key # k}
             new == {files[k].key : k \in hit}
             s == RemoveSame(sel, Paths(moved))
             t == AddSame(s, Paths(new))
  <2>1. DOMAIN files = K /\ \A k \in K : files[k].key \in Names
    BY DEF Files
  <2>2. hit = Children(sel) \cap K /\ moved \in SUBSET Names /\ new \in SUBSET Names
    BY <2>1
  <2>3. Rename(sel, files) = t
    BY DEF Rename
  <2>4. \A n \in new : \E k \in K : files[k].key = n
    BY <2>1
  <2>5. \A n \in (Children(sel) \ moved) \cap K : files[n].key = n
    BY <2>1
  <2> HIDE DEF hit, moved, new
  <2>6. SelectedOK(s) /\ Children(s) = Children(sel) \ moved
    BY <2>2, ChildrenGo
  <2> HIDE DEF s
  <2>7. SelectedOK(t) /\ Children(t) \subseteq Children(s) \cup new
    BY <2>2, <2>6, ChildrenGo
  <2> HIDE DEF t
  <2> QED
    BY <2>3, <2>4, <2>5, <2>6, <2>7
<1> QED
  BY <1>2, <1>3, <1>4

(* and what the user does. *)
LEMMA ToggleFacts ==
  ASSUME NEW sel, SelectedOK(sel)
  PROVE  /\ \A k \in Names : /\ SelectedOK(Toggle(sel, <<k>>))
                             /\ Children(Toggle(sel, <<k>>)) \subseteq Children(sel) \cup {k}
         /\ \A d \in Dirs : /\ SelectedOK(Toggle(sel, Inside(d)))
                            /\ Children(Toggle(sel, Inside(d))) \subseteq Children(sel)
         /\ \A K \in SUBSET Names : /\ SelectedOK(ToggleAll(sel, Paths(K)))
                                    /\ Children(ToggleAll(sel, Paths(K))) \subseteq Children(sel) \cup K
<1>1. ASSUME NEW k \in Names
      PROVE  SelectedOK(Toggle(sel, <<k>>)) /\ Children(Toggle(sel, <<k>>)) \subseteq Children(sel) \cup {k}
  <2>1. {<<k>>} = Paths({k}) /\ {k} \in SUBSET Names
    <3>1. \A p : p \in Paths({k}) <=> p = <<k>>
      BY Zenon DEF Paths
    <3> DEFINE p == <<k>>
    <3> HIDE DEF p
    <3>2. {p} = Paths({k})
      BY <3>1 DEF p
    <3> QED
      BY <3>2 DEF p
  <2>2. Toggle(sel, <<k>>) = RemoveSame(sel, Paths({k})) \/ Toggle(sel, <<k>>) = AddSame(sel, Paths({k}))
    <3>1. Toggle(sel, <<k>>) = RemoveSame(sel, {<<k>>}) \/ Toggle(sel, <<k>>) = AddSame(sel, {<<k>>})
      BY Zenon DEF Toggle
    <3> QED
      BY <2>1, <3>1, Zenon
  <2>3. /\ SelectedOK(RemoveSame(sel, Paths({k})))
        /\ Children(RemoveSame(sel, Paths({k}))) = Children(sel) \ {k}
        /\ SelectedOK(AddSame(sel, Paths({k})))
        /\ Children(AddSame(sel, Paths({k}))) \subseteq Children(sel) \cup {k}
    BY <2>1, ChildrenGo
  <2> QED
    BY <2>2, <2>3
<1>2. ASSUME NEW d \in Dirs
      PROVE  SelectedOK(Toggle(sel, Inside(d))) /\ Children(Toggle(sel, Inside(d))) \subseteq Children(sel)
  <2> DEFINE p == Inside(d)
             r == Toggle(sel, p)
  <2>1. p \in Selectable
    BY DEF Selectable
  <2>2. \A k : <<k>> # p
    BY PathFacts
  <2> HIDE DEF p
  <2>3. Siblings({p})
    BY <2>1, SiblingFacts
  <2>4. r = RemoveSame(sel, {p}) \/ r = AddSame(sel, {p})
    BY Zenon DEF Toggle
  <2>5. SelectedOK(r) /\ r.inner \subseteq sel.inner \cup {p}
    <3>1. SelectedOK(RemoveSame(sel, {p})) /\ RemoveSame(sel, {p}).inner = sel.inner \ {p}
      BY <2>3, RemoveFacts
    <3>2. SelectedOK(AddSame(sel, {p})) /\ AddSame(sel, {p}).inner \subseteq sel.inner \cup {p}
      BY <2>3, AddFacts
    <3> HIDE DEF r
    <3> QED
      BY <2>4, <3>1, <3>2
  <2> HIDE DEF r
  <2>6. \A k : k \in Children(r) <=> <<k>> \in r.inner
    BY <2>5, ChildrenFacts
  <2>7. \A k : k \in Children(sel) <=> <<k>> \in sel.inner
    BY ChildrenFacts
  <2>8. Children(r) \subseteq Children(sel)
    <3> SUFFICES ASSUME NEW k \in Children(r) PROVE k \in Children(sel)
      OBVIOUS
    <3> DEFINE c == <<k>>
    <3>1. c \in r.inner /\ c # p
      BY <2>2, <2>6
    <3>2. c \in sel.inner => k \in Children(sel)
      BY <2>7
    <3> HIDE DEF c
    <3> QED
      BY <2>5, <3>1, <3>2
  <2> QED
    BY <2>5, <2>8, Zenon DEF r, p
<1>3. ASSUME NEW K \in SUBSET Names
      PROVE  /\ SelectedOK(ToggleAll(sel, Paths(K)))
             /\ Children(ToggleAll(sel, Paths(K))) \subseteq Children(sel) \cup K
  <2> DEFINE A == {k \in K : <<k>> \in sel.inner}
             B == K \ A
             s == RemoveSame(sel, Paths(A))
             t == AddSame(s, Paths(B))
  <2>1. A \in SUBSET Names /\ B \in SUBSET Names
    OBVIOUS
  <2>2. Paths(K) \cap sel.inner = Paths(A) /\ Paths(K) \ sel.inner = Paths(B)
    BY DEF Paths
  <2>3. ToggleAll(sel, Paths(K)) = t
    BY <2>2, Zenon DEF ToggleAll
  <2>4. B \subseteq K
    OBVIOUS
  <2> HIDE DEF A, B
  <2>5. SelectedOK(s) /\ Children(s) = Children(sel) \ A
    BY <2>1, ChildrenGo
  <2> HIDE DEF s
  <2>6. SelectedOK(t) /\ Children(t) \subseteq Children(s) \cup B
    BY <2>1, <2>5, ChildrenGo
  <2> HIDE DEF t
  <2> QED
    BY <2>3, <2>4, <2>5, <2>6
<1> QED
  BY <1>1, <1>2, <1>3
(* What is selected in Home is listed there, once it has been listed.      *)
SelectedListed == home.stage = "Loaded" => Children(selected) \subseteq AllKeys(home)
SelectionInv == SelectedOK(selected) /\ SelectedListed

(* Nothing is selected at first. *)
LEMMA SelectionInit == Init => SelectionInv
<1> SUFFICES ASSUME Init PROVE SelectionInv
  OBVIOUS
<1>1. selected = [inner |-> {}, parents |-> [u \in CountedDirs |-> 0]]
  BY DEF Init, NoneSelected, CountedDirs
<1>2. \A u : Under({}, u) = {}
  BY DEF Under
<1>3. \A u : Cardinality(Under({}, u)) = 0
  BY <1>2, FS_EmptySet
<1>4. SelectedOK(selected)
  <2>1. selected.inner = {} /\ selected.parents = [u \in CountedDirs |-> 0]
    BY <1>1
  <2>2. selected.parents = [u \in CountedDirs |-> Cardinality(Under({}, u))]
    BY <1>3, <2>1
  <2> QED
    BY <1>1, <2>1, <2>2 DEF SelectedOK
<1>5. home.stage # "Loaded"
  BY DEF Init, Empty
<1> QED
  BY <1>4, <1>5 DEF SelectionInv, SelectedListed

(* A reading deselects what it has not found, *)
LEMMA SelectionLoads ==
  ASSUME TabInv, SelectionInv, UpdateLoad
  PROVE  SelectionInv'
<1> DEFINE h == Head(queue)
           ended == h.op = "Done" /\ home.stage = "Loading" /\ home.ticket = h.ticket
<1>1. SelectedOK(selected) /\ (home.stage = "Loaded" => Children(selected) \subseteq AllKeys(home))
  BY DEF SelectionInv, SelectedListed
<1>2. h.op \in {"Full", "Part", "Done"}
  <2>1. PICK op \in Loads : Next1(op)
    BY DEF UpdateLoad
  <2> QED
    BY <2>1 DEF Next1, Loads
<1>3. /\ h.op = "Full" => AllKeys(home') = Keys(h.files)
      /\ h.op = "Part" => home'.stage = "Loading"
                          \/ (home.stage = "Loaded" /\ AllKeys(home') = AllKeys(home))
      /\ h.op = "Done" => /\ AllKeys(home') = AllKeys(home)
                          /\ \/ home'.stage = home.stage
                             \/ home.stage = "Loading" /\ home.ticket = h.ticket
  BY LoadMoves DEF TabInv
<1>4. selected' = CASE h.op = "Full" -> Scan(selected, Keys(h.files))
                    [] ended -> Scan(selected, AllKeys(home))
                    [] OTHER -> selected
  BY DEF UpdateLoad, AllKeys
<1>5. \A K : SelectedOK(Scan(selected, K)) /\ Children(Scan(selected, K)) \subseteq K
  BY <1>1, ReconcileFacts
<1> HIDE DEF h
<1>6. SelectedOK(selected') /\ (home'.stage = "Loaded" => Children(selected') \subseteq AllKeys(home'))
  <2>1. CASE h.op = "Full"
    <3>1. selected' = Scan(selected, Keys(h.files))
      BY <1>4, <2>1
    <3> QED
      BY <1>3, <1>5, <2>1, <3>1
  <2>2. CASE h.op = "Part"
    <3>1. selected' = selected
      BY <1>4, <2>2
    <3> QED
      BY <1>1, <1>3, <2>2, <3>1
  <2>3. CASE ended
    <3>1. selected' = Scan(selected, AllKeys(home))
      BY <1>4, <2>3
    <3> QED
      BY <1>3, <1>5, <2>3, <3>1
  <2>4. CASE h.op = "Done" /\ ~ended
    <3>1. selected' = selected
      BY <1>4, <2>4
    <3> QED
      BY <1>1, <1>3, <2>4, <3>1
  <2> QED
    BY <1>2, <2>1, <2>2, <2>3, <2>4
<1> QED
  BY <1>6 DEF SelectionInv, SelectedListed

(* a renaming moves the selection along, *)
LEMMA SelectionUpserts ==
  ASSUME TabInv, SelectionInv, UpdateUpserted
  PROVE  SelectionInv'
<1> DEFINE files == Head(queue).files
           r == Rename(selected, files)
<1>1. SelectedOK(selected) /\ (home.stage = "Loaded" => Children(selected) \subseteq AllKeys(home))
  BY DEF SelectionInv, SelectedListed
<1>2. home'.stage = home.stage
  BY UpsertMoves DEF TabInv
<1>3. PICK K \in SUBSET Names :
        /\ files \in [K -> Files]
        /\ \A k \in K : files[k].key \in AllKeys(home')
        /\ \A n \in AllKeys(home) \ K :
             (\A k \in K : files[k].key = n => k = n) => n \in AllKeys(home')
  BY UpsertMoves DEF TabInv
<1>4. selected' = r
  BY DEF UpdateUpserted
<1> HIDE DEF files
<1>5. /\ SelectedOK(r)
      /\ \A n \in Children(r) : (\E k \in K : files[k].key = n) \/ n \in Children(selected) \ K
  BY <1>1, <1>3, ReconcileFacts
<1> HIDE DEF r
<1>6. ASSUME home'.stage = "Loaded", NEW n \in Children(r) PROVE n \in AllKeys(home')
  <2>1. CASE \E k \in K : files[k].key = n
    BY <1>3, <2>1
  <2>2. CASE n \in Children(selected) \ K /\ ~\E k \in K : files[k].key = n
    BY <1>1, <1>2, <1>3, <1>6, <2>2
  <2> QED
    BY <1>5, <2>1, <2>2
<1> QED
  BY <1>4, <1>5, <1>6 DEF SelectionInv, SelectedListed

(* what is gone is deselected, *)
LEMMA SelectionDeletes ==
  ASSUME TabInv, SelectionInv, UpdateDeleted
  PROVE  SelectionInv'
<1> DEFINE keys == Head(queue).keys
           r == Delete(selected, keys)
<1>1. SelectedOK(selected) /\ (home.stage = "Loaded" => Children(selected) \subseteq AllKeys(home))
  BY DEF SelectionInv, SelectedListed
<1>2. home'.stage = home.stage /\ AllKeys(home) \ keys \subseteq AllKeys(home')
  BY DeleteMoves DEF TabInv
<1>3. selected' = r
  BY DEF UpdateDeleted
<1> HIDE DEF keys
<1>4. SelectedOK(r) /\ Children(r) = Children(selected) \ keys
  BY <1>1, ReconcileFacts
<1> HIDE DEF r
<1> QED
  BY <1>1, <1>2, <1>3, <1>4 DEF SelectionInv, SelectedListed

(* and the user selects what is listed. *)
LEMMA SelectionSelects ==
  ASSUME TabInv, SelectionInv, Select
  PROVE  SelectionInv'
<1>1. SelectedOK(selected) /\ (home.stage = "Loaded" => Children(selected) \subseteq AllKeys(home))
  BY DEF SelectionInv, SelectedListed
<1>2. home' = home /\ home \in Folder
  BY DEF Select, TabInv, HomeOK
<1>3. Keys(home.items) \in SUBSET Names /\ Keys(home.items) \subseteq AllKeys(home)
      /\ Hovered(home) \in Keys(home.items) \cup {None}
  BY <1>2, FolderFacts, HoveredFacts DEF AllKeys
<1>4. SelectedOK(selected') /\ Children(selected') \subseteq Children(selected) \cup AllKeys(home)
  <2>1. CASE Hovered(home) # None /\ selected' = Toggle(selected, <<Hovered(home)>>)
    <3> DEFINE k == Hovered(home)
               r == Toggle(selected, <<k>>)
    <3>1. k \in Keys(home.items) /\ k \in Names
      BY <1>3, <2>1
    <3> HIDE DEF k
    <3>2. SelectedOK(r) /\ Children(r) \subseteq Children(selected) \cup {k}
      BY <1>1, <3>1, ToggleFacts
    <3> HIDE DEF r
    <3>3. selected' = r
      BY <2>1, Zenon DEF r, k
    <3> QED
      BY <1>3, <3>1, <3>2, <3>3
  <2>2. CASE cwd \in Dirs /\ selected' = Toggle(selected, Inside(cwd))
    <3> DEFINE r == Toggle(selected, Inside(cwd))
    <3>1. SelectedOK(r) /\ Children(r) \subseteq Children(selected)
      BY <1>1, <2>2, ToggleFacts
    <3> HIDE DEF r
    <3>2. selected' = r
      BY <2>2, Zenon DEF r
    <3> QED
      BY <3>1, <3>2
  <2>3. CASE selected' = ToggleAll(selected, Paths(Keys(home.items)))
    <3> DEFINE K == Keys(home.items)
               r == ToggleAll(selected, Paths(K))
    <3>1. SelectedOK(r) /\ Children(r) \subseteq Children(selected) \cup K
      BY <1>1, <1>3, ToggleFacts
    <3> HIDE DEF r
    <3>2. selected' = r
      BY <2>3, Zenon DEF r
    <3> QED
      BY <1>3, <3>1, <3>2
  <2> QED
    BY <2>1, <2>2, <2>3 DEF Select
<1> QED
  BY <1>1, <1>2, <1>4 DEF SelectionInv, SelectedListed

(* In every step the selection stays in order. *)
LEMMA SelectionStep == TabInv /\ SelectionInv /\ [Next]_vars => SelectionInv'
<1> SUFFICES ASSUME TabInv, SelectionInv, [Next]_vars PROVE SelectionInv'
  OBVIOUS
<1>1. DataOK /\ HomeOK /\ StackInv
  BY DEF TabInv
<1>2. ASSUME selected' = selected, home'.stage = home.stage, AllKeys(home) \subseteq AllKeys(home')
      PROVE  SelectionInv'
  BY <1>2 DEF SelectionInv, SelectedListed
<1>3. ASSUME UNCHANGED <<selected, home>> PROVE SelectionInv'
  BY <1>2, <1>3
<1>4. CASE Others \/ Announce \/ (\E n \in Names : CreateFile(n))
           \/ (\E old, new \in Names : RenameFile(old, new))
           \/ (\E k \in 1..Len(pending) : Watch(k)) \/ (\E k : Read(k)) \/ EndRead
  <2>1. UNCHANGED <<selected, home>>
    BY <1>4 DEF Others, Announce, CreateFile, RenameFile, Watch, Read, EndRead
  <2> QED
    BY <1>3, <2>1
<1>5. CASE UpdateLoad
  BY <1>5, SelectionLoads
<1>6. CASE UpdateUpserted
  BY <1>6, SelectionUpserts
<1>7. CASE UpdateDeleted
  BY <1>7, SelectionDeletes
<1>8. CASE Invalidate
  <2>1. selected' = selected
    BY <1>8 DEF Invalidate
  <2>2. home'.stage = home.stage /\ AllKeys(home') = AllKeys(home)
    BY <1>1, <1>8, InvalidateMoves
  <2> QED
    BY <1>2, <2>1, <2>2
<1>9. CASE Reveal
  <2>1. selected' = selected
    BY <1>9 DEF Reveal
  <2>2. home'.stage = home.stage /\ AllKeys(home) \subseteq AllKeys(home')
    BY <1>1, <1>9, RevealMoves
  <2> QED
    BY <1>2, <2>1, <2>2
<1>10. CASE Select
  BY <1>10, SelectionSelects
<1>11. CASE User /\ ~Select
  <2>1. selected' = selected
    BY <1>11 DEF User, Move, SortBy, ToggleHidden, FilterDo, Go, Focus
  <2>2. Browses
    BY <1>1, <1>11, MoveBrowses, PreferBrowses, FilterBrowses, GoBrowses, FocusBrowses DEF User
  <2> QED
    BY <1>2, <2>1, <2>2 DEF Browses
<1>12. CASE UNCHANGED vars
  BY <1>3, <1>12 DEF vars
<1> QED
  BY <1>4, <1>5, <1>6, <1>7, <1>8, <1>9, <1>10, <1>11, <1>12 DEF Next, Deliver, User

(* The types of the tab; among them, that no count falls below zero.       *)
THEOREM TabTypeCorrect == Spec => []TypeOK
<1>1. Init => TabInv /\ SelectionInv
  BY HomeInit, StackInit, SelectionInit DEF TabInv
<1>2. TabInv /\ SelectionInv /\ [Next]_vars => (TabInv /\ SelectionInv)'
  BY TabStep, SelectionStep
<1>3. TabInv /\ SelectionInv => TypeOK
  <2> SUFFICES ASSUME TabInv, SelectionInv PROVE TypeOK
    OBVIOUS
  <2>1. \A i \in DOMAIN queue : \E keys \in SUBSET Names : queue[i] \in Events(keys)
    <3>1. \A i \in DOMAIN queue : queue[i] \in AnyEvent
      <4>1. queue \in Seq(AnyEvent)
        BY DEF TabInv, DataOK
      <4> QED
        BY <4>1
    <3> QED
      BY <3>1 DEF AnyEvent
  <2>2. selected \in [inner : SUBSET (Paths(Names) \cup {Inside(d) : d \in Dirs}),
                      parents : [{<<>>} \cup Paths(Dirs) -> Nat]]
    BY UnderFacts DEF SelectionInv, Selectable, CountedDirs
  <2>3. stack \in Seq({Home} \cup Dirs) /\ pos \in Nat
    <3>1. stack \in Seq(Spots) /\ Len(stack) \in Nat /\ pos \in 1..Len(stack)
      BY DEF TabInv, StackInv, StackSound
    <3> QED
      BY <3>1 DEF Spots
  <2>4. cwd \in {Home} \cup Dirs
    BY DEF TabInv, HomeOK, Spots
  <2> QED
    BY <2>1, <2>2, <2>3, <2>4, Zenon DEF TabInv, DataOK, HomeOK, PrefOK, TypeOK
<1> QED
  BY <1>1, <1>2, <1>3, PTL DEF Spec

(* No directory is selected together with a file in it, the counts that    *)
(* tell so are right, and what is selected in Home is listed there.        *)
THEOREM SelectionStands == Spec => []SelectionSound
<1>1. Init => TabInv /\ SelectionInv
  BY HomeInit, StackInit, SelectionInit DEF TabInv
<1>2. TabInv /\ SelectionInv /\ [Next]_vars => (TabInv /\ SelectionInv)'
  BY TabStep, SelectionStep
<1>3. SelectionInv => SelectionSound
  <2> SUFFICES ASSUME SelectionInv PROVE SelectionSound
    OBVIOUS
  <2>1. DOMAIN selected.parents = CountedDirs
        /\ \A u \in CountedDirs : selected.parents[u] = Cardinality(Under(selected.inner, u))
    BY DEF SelectionInv, SelectedOK
  <2>2. \A p \in selected.inner : Ancestors(p) \cap selected.inner = {}
    BY DEF SelectionInv, SelectedOK
  <2>3. home.stage = "Loaded" => Children(selected) \subseteq Listed
    BY DEF SelectionInv, SelectedListed, AllKeys, Listed
  <2> QED
    BY <2>1, <2>2, <2>3 DEF SelectionSound, Under
<1> QED
  BY <1>1, <1>2, <1>3, PTL DEF Spec
-----------------------------------------------------------------------------
(* The listing and the disk. *)

(* No key stands twice in a list. *)
Single(s) == \A i, j \in DOMAIN s : s[i].key = s[j].key => i = j

(* The keys are those of the files. *)
LEMMA KeysOf ==
  ASSUME NEW s \in Seq(Files)
  PROVE  /\ ToSet(s) \in SUBSET Files /\ Keys(s) = {x.key : x \in ToSet(s)}
         /\ \A x \in ToSet(s) : x.key \in Keys(s) /\ x.key \in Names /\ x.stat \in Nat
         /\ \A k \in Keys(s) : \E x \in ToSet(s) : x.key = k
         /\ \A i \in 1..Len(s) : s[i] \in ToSet(s)
         /\ \A x \in ToSet(s) : \E i \in 1..Len(s) : s[i] = x
         /\ Single(s) => \A x, y \in ToSet(s) : x.key = y.key => x = y
<1>1. /\ Keys(s) = {s[i].key : i \in 1..Len(s)} /\ DOMAIN s = 1..Len(s)
      /\ \A i \in 1..Len(s) : s[i] \in Files /\ s[i].key \in Names /\ s[i].stat \in Nat
  BY KeysNames
<1>2. ToSet(s) = {s[i] : i \in 1..Len(s)}
  BY <1>1 DEF ToSet
<1>3. Keys(s) = {x.key : x \in ToSet(s)}
  BY <1>1, <1>2
<1> QED
  BY <1>1, <1>2, <1>3 DEF Single

(* Two lists together have the files of both, *)
LEMMA ConcatFiles ==
  ASSUME NEW s \in Seq(Files), NEW t \in Seq(Files)
  PROVE  /\ s \o t \in Seq(Files) /\ ToSet(s \o t) = ToSet(s) \cup ToSet(t)
         /\ Single(s) /\ Single(t) /\ Keys(s) \cap Keys(t) = {} => Single(s \o t)
<1> DEFINE r == s \o t
<1>1. /\ r \in Seq(Files) /\ DOMAIN r = 1..Len(s) + Len(t) /\ DOMAIN s = 1..Len(s)
      /\ DOMAIN t = 1..Len(t) /\ Len(s) \in Nat /\ Len(t) \in Nat
      /\ \A i \in 1..Len(s) : r[i] = s[i]
      /\ \A i \in 1..Len(t) : r[Len(s) + i] = t[i]
  OBVIOUS
<1> HIDE DEF r
<1>2. \A i \in DOMAIN r : i \in DOMAIN s \/ (i - Len(s) \in DOMAIN t /\ r[i] = t[i - Len(s)])
  <2> SUFFICES ASSUME NEW i \in DOMAIN r, i > Len(s)
               PROVE  i - Len(s) \in 1..Len(t) /\ r[i] = t[i - Len(s)]
    BY <1>1
  <2>1. i - Len(s) \in 1..Len(t) /\ Len(s) + (i - Len(s)) = i
    BY <1>1
  <2> QED
    BY <1>1, <2>1
<1>3. \A i \in DOMAIN t : Len(s) + i \in DOMAIN r
  BY <1>1
<1>4. DOMAIN s \subseteq DOMAIN r
  BY <1>1
<1>5. ToSet(r) \subseteq ToSet(s) \cup ToSet(t)
  BY <1>1, <1>2 DEF ToSet
<1>6. ToSet(s) \cup ToSet(t) \subseteq ToSet(r)
  BY <1>1, <1>3, <1>4 DEF ToSet
<1>7. ASSUME Single(s), Single(t), Keys(s) \cap Keys(t) = {},
             NEW i \in DOMAIN r, NEW j \in DOMAIN r, r[i].key = r[j].key
      PROVE  i = j
  <2>1. \A a \in DOMAIN s, b \in DOMAIN t : s[a].key # t[b].key
    BY <1>7 DEF Keys
  <2>2. CASE i \in DOMAIN s /\ j \in DOMAIN s
    BY <1>1, <1>7, <2>2 DEF Single
  <2>3. CASE i \notin DOMAIN s /\ j \notin DOMAIN s
    <3>1. i - Len(s) = j - Len(s)
      BY <1>2, <1>7, <2>3 DEF Single
    <3> QED
      BY <1>1, <3>1
  <2>4. CASE i \in DOMAIN s /\ j \notin DOMAIN s
    BY <1>1, <1>2, <1>7, <2>1, <2>4
  <2>5. CASE i \notin DOMAIN s /\ j \in DOMAIN s
    BY <1>1, <1>2, <1>7, <2>1, <2>5
  <2> QED
    BY <2>2, <2>3, <2>4, <2>5
<1> QED
  BY <1>1, <1>5, <1>6, <1>7 DEF Single, r

(* those that are picked are themselves, *)
LEMMA PickFiles ==
  ASSUME NEW s \in Seq(Files), NEW P \in SUBSET (1..Len(s))
  PROVE  /\ Pick(s, P) \in Seq(Files) /\ ToSet(Pick(s, P)) = {s[i] : i \in P}
         /\ Single(s) => Single(Pick(s, P))
<1> DEFINE r == Pick(s, P)
<1>1. /\ r \in Seq(Files) /\ Len(r) = Cardinality(P) /\ Cardinality(P) \in 0..Len(s)
      /\ \A i \in P : Rank(P, i) + 1 \in 1..Cardinality(P) /\ r[Rank(P, i) + 1] = s[i]
      /\ \A k \in 1..Cardinality(P) : \E i \in P : k = Rank(P, i) + 1
  BY PickFacts
<1> HIDE DEF r
<1>2. DOMAIN r = 1..Cardinality(P)
  <2>1. DOMAIN r = 1..Len(r)
    BY <1>1
  <2>2. Len(r) = Cardinality(P) /\ Cardinality(P) \in 0..Len(s)
    BY <1>1
  <2> QED
    BY <2>1, <2>2
<1>3. \A k \in DOMAIN r : \E i \in P : k = Rank(P, i) + 1 /\ r[k] = s[i]
  BY <1>1, <1>2
<1>4. \A i \in P : \E k \in DOMAIN r : r[k] = s[i]
  BY <1>1, <1>2
<1>5. ToSet(r) = {s[i] : i \in P}
  <2>1. \A k \in DOMAIN r : \E i \in P : r[k] = s[i]
    BY <1>3
  <2>2. {r[k] : k \in DOMAIN r} \subseteq {s[i] : i \in P}
    BY <2>1
  <2>3. {s[i] : i \in P} \subseteq {r[k] : k \in DOMAIN r}
    BY <1>4
  <2> QED
    BY <2>2, <2>3 DEF ToSet
<1>6. ASSUME Single(s), NEW a \in DOMAIN r, NEW b \in DOMAIN r, r[a].key = r[b].key PROVE a = b
  <2>1. PICK i \in P : a = Rank(P, i) + 1 /\ r[a] = s[i]
    BY <1>3
  <2>2. PICK j \in P : b = Rank(P, j) + 1 /\ r[b] = s[j]
    BY <1>3
  <2>3. i \in DOMAIN s /\ j \in DOMAIN s
    OBVIOUS
  <2>4. i = j
    BY <1>6, <2>1, <2>2, <2>3 DEF Single
  <2> QED
    BY <2>1, <2>2, <2>4
<1> QED
  BY <1>1, <1>5, <1>6 DEF r, Single

(* and splitting parts them by whether they are visible. *)
LEMMA SplitFiles ==
  ASSUME NEW f, NEW s \in Seq(Files)
  PROVE  /\ ToSet(Split(f, s).items) = {x \in ToSet(s) : Visible(f, x.key)}
         /\ ToSet(Split(f, s).hidden) = {x \in ToSet(s) : ~Visible(f, x.key)}
         /\ Single(s) => Single(Split(f, s).items) /\ Single(Split(f, s).hidden)
<1> DEFINE shown == {i \in DOMAIN s : Visible(f, s[i].key)}
           rest == DOMAIN s \ shown
<1>1. DOMAIN s = 1..Len(s)
  OBVIOUS
<1>2. shown \in SUBSET (1..Len(s)) /\ rest \in SUBSET (1..Len(s))
  BY <1>1
<1>3. Split(f, s).items = Pick(s, shown) /\ Split(f, s).hidden = Pick(s, rest)
  BY DEF Split, Without
<1>4. /\ {s[i] : i \in shown} = {x \in ToSet(s) : Visible(f, x.key)}
      /\ {s[i] : i \in rest} = {x \in ToSet(s) : ~Visible(f, x.key)}
  BY DEF ToSet
<1> HIDE DEF shown, rest
<1>5. /\ ToSet(Pick(s, shown)) = {s[i] : i \in shown} /\ ToSet(Pick(s, rest)) = {s[i] : i \in rest}
      /\ Single(s) => Single(Pick(s, shown)) /\ Single(Pick(s, rest))
  BY <1>2, PickFiles
<1> QED
  BY <1>3, <1>4, <1>5

(* r has the files of s at other places, in order: what is n-th in r is    *)
(* p[n]-th in s.                                                           *)
Arranges(p, by, s, r) ==
  /\ p \in [1..Len(s) -> 1..Len(s)]
  /\ \A n, m \in 1..Len(s) : p[n] = p[m] => n = m
  /\ \A j \in 1..Len(s) : \E n \in 1..Len(s) : p[n] = j
  /\ r = [n \in 1..Len(s) |-> s[p[n]]]
  /\ \A n, m \in 1..Len(s) : n < m => ~Before(by, s[p[m]], s[p[n]])

(* So does sorting. *)
LEMMA SortedPlaces ==
  ASSUME NEW f, f.by \in {"name", "time"}, NEW s \in Seq(Files)
  PROVE  \E p : Arranges(p, f.by, s, Sorted(f, s))
<1> DEFINE D == 1..Len(s)
           Precedes(i, j) == \/ Before(f.by, s[i], s[j])
                             \/ i < j /\ ~Before(f.by, s[j], s[i])
           R == {p \in D \X D : Precedes(p[1], p[2])}
           Those(j) == {i \in D : Precedes(i, j)}
           r == [n \in D |-> s[CHOOSE j \in D : Cardinality(Those(j)) = n - 1]]
<1>1. Len(s) \in Nat /\ DOMAIN s = D /\ \A i \in D : s[i] \in Files
  OBVIOUS
<1>2. Sorted(f, s) = r
  BY <1>1 DEF Sorted
<1>3. \A i, j \in D : <<i, j>> \in R <=> Precedes(i, j)
  OBVIOUS
<1>4. \A i \in D : <<i, i>> \notin R
  BY <1>1, <1>3, BeforeFacts
<1>5. \A i, j \in D : i # j => <<i, j>> \in R \/ <<j, i>> \in R
  BY <1>1, <1>3, BeforeFacts
<1>6. \A i, j, k \in D : <<i, j>> \in R /\ <<j, k>> \in R => <<i, k>> \in R
  <2> SUFFICES ASSUME NEW i \in D, NEW j \in D, NEW k \in D, Precedes(i, j), Precedes(j, k)
               PROVE  Precedes(i, k)
    BY <1>3
  <2>1. s[i] \in Files /\ s[j] \in Files /\ s[k] \in Files /\ i \in Nat /\ j \in Nat /\ k \in Nat
    BY <1>1
  <2> DEFINE B(x, y) == Before(f.by, x, y)
             a == s[i]  b == s[j]  c == s[k]
  <2>2. /\ B(a, b) => ~B(b, a)
        /\ B(b, c) => ~B(c, b)
        /\ B(a, c) => ~B(c, a)
        /\ B(a, b) /\ ~B(c, b) => B(a, c)
        /\ B(b, c) /\ ~B(a, c) => B(b, a)
        /\ B(c, a) /\ ~B(b, a) => B(c, b)
    BY <2>1, BeforeFacts
  <2>3. /\ B(a, b) \/ (i < j /\ ~B(b, a))
        /\ B(b, c) \/ (j < k /\ ~B(c, b))
    OBVIOUS
  <2> HIDE DEF B, a, b, c
  <2>4. B(a, c) \/ (i < k /\ ~B(c, a))
    BY <2>1, <2>2, <2>3
  <2> QED
    BY <2>4 DEF B, a, b, c
<1>7. IsFiniteSet(D) /\ Cardinality(D) = Len(s)
  <2>1. Len(s) \in Int /\ Len(s) >= 0
    BY <1>1
  <2> HIDE DEF Precedes, R, Those, r
  <2> QED
    BY <2>1, FS_Interval
<1>8. \A i \in D : Preceding(D, R, i) = Cardinality(Those(i))
  <2> SUFFICES ASSUME NEW i \in D PROVE {j \in D : <<j, i>> \in R} = Those(i)
    BY DEF Preceding
  <2> QED
    BY <1>3
<1> HIDE DEF R, Those, D
<1>9. /\ \A i \in D : Preceding(D, R, i) \in 0..Cardinality(D)-1
      /\ \A i, j \in D : <<i, j>> \in R => Preceding(D, R, i) < Preceding(D, R, j)
      /\ \A n \in 0..Cardinality(D)-1 : \E i \in D : Preceding(D, R, i) = n
  BY <1>4, <1>5, <1>6, <1>7, Ranks
<1> DEFINE p == [n \in D |-> CHOOSE j \in D : Cardinality(Those(j)) = n - 1]
<1>10. \A n \in D : n \in Nat /\ n - 1 \in 0..Len(s)-1
  BY <1>1 DEF D
<1>11. \A n \in D : \E j \in D : Cardinality(Those(j)) = n - 1
  BY <1>7, <1>8, <1>9, <1>10
<1>12. \A n \in D : p[n] \in D /\ Cardinality(Those(p[n])) = n - 1
  BY <1>11
<1>13. p \in [D -> D] /\ r = [n \in D |-> s[p[n]]]
  BY <1>12
<1> HIDE DEF p, r
<1>14. \A j \in D : Cardinality(Those(j)) \in 0..Len(s)-1
  BY <1>7, <1>8, <1>9
<1>15. ASSUME NEW i \in D, NEW j \in D, Cardinality(Those(i)) <= Cardinality(Those(j))
       PROVE  i = j \/ <<i, j>> \in R
  <2>1. Preceding(D, R, i) = Cardinality(Those(i)) /\ Preceding(D, R, j) = Cardinality(Those(j))
    BY <1>8
  <2>2. /\ Cardinality(Those(i)) \in 0..Len(s)-1 /\ Cardinality(Those(j)) \in 0..Len(s)-1
        /\ Len(s) \in Nat
    BY <1>1, <1>14
  <2>3. ~(Preceding(D, R, j) < Preceding(D, R, i))
    BY <1>15, <2>1, <2>2
  <2>4. <<j, i>> \notin R
    BY <1>9, <2>3
  <2> QED
    BY <1>5, <2>4
<1>16. ASSUME NEW n \in D, NEW m \in D, p[n] = p[m] PROVE n = m
  BY <1>10, <1>12, <1>16
<1>17. ASSUME NEW j \in D PROVE \E n \in D : p[n] = j
  <2> DEFINE n == Cardinality(Those(j)) + 1
  <2>1. n \in D /\ n - 1 = Cardinality(Those(j))
    BY <1>1, <1>14 DEF D
  <2> HIDE DEF n
  <2>2. p[n] \in D /\ Cardinality(Those(p[n])) = Cardinality(Those(j))
    BY <1>12, <2>1
  <2>3. /\ Cardinality(Those(j)) \in Int /\ Cardinality(Those(p[n])) <= Cardinality(Those(j))
        /\ Cardinality(Those(j)) <= Cardinality(Those(p[n]))
    BY <1>1, <1>14, <2>2
  <2>4. p[n] = j \/ (<<p[n], j>> \in R /\ <<j, p[n]>> \in R)
    BY <1>15, <2>2, <2>3
  <2> QED
    BY <1>4, <1>6, <2>1, <2>2, <2>4
<1>18. ASSUME NEW n \in D, NEW m \in D, n < m PROVE ~Before(f.by, s[p[m]], s[p[n]])
  <2>1. Cardinality(Those(p[n])) = n - 1 /\ Cardinality(Those(p[m])) = m - 1 /\ p[n] \in D /\ p[m] \in D
    BY <1>12
  <2>2. n \in Nat /\ m \in Nat
    BY <1>10
  <2>3. p[n] # p[m] /\ Cardinality(Those(p[n])) <= Cardinality(Those(p[m]))
    BY <1>18, <2>1, <2>2
  <2>4. <<p[n], p[m]>> \in R
    BY <1>15, <2>1, <2>3
  <2>5. Precedes(p[n], p[m])
    BY <1>3, <2>1, <2>4
  <2> QED
    BY <1>1, <2>1, <2>5, BeforeFacts
<1> QED
  BY <1>2, <1>13, <1>16, <1>17, <1>18 DEF D, Arranges

(* No file is lost, and a list that is in order stays as it is. *)
LEMMA SortedFiles ==
  ASSUME NEW f, f.by \in {"name", "time"}, NEW s \in Seq(Files)
  PROVE  /\ Sorted(f, s) \in Seq(Files) /\ Len(Sorted(f, s)) = Len(s)
         /\ ToSet(Sorted(f, s)) = ToSet(s)
         /\ Single(s) => Single(Sorted(f, s))
         /\ Sorted(f, Sorted(f, s)) = Sorted(f, s)
<1> DEFINE D == 1..Len(s)
           r == Sorted(f, s)
           InOrder(q) == \A n, m \in DOMAIN q : n < m => ~Before(f.by, q[m], q[n])
<1>1. Len(s) \in Nat /\ DOMAIN s = D /\ \A i \in D : s[i] \in Files
  OBVIOUS
<1>2. \E p : Arranges(p, f.by, s, r)
  BY SortedPlaces
<1>20. PICK p : Arranges(p, f.by, s, r)
  BY <1>2
<1>21. /\ p \in [D -> D] /\ r = [n \in D |-> s[p[n]]]
       /\ \A n, m \in D : p[n] = p[m] => n = m
       /\ \A j \in D : \E n \in D : p[n] = j
       /\ \A n, m \in D : n < m => ~Before(f.by, s[p[m]], s[p[n]])
  BY <1>20 DEF Arranges
<1>3. r \in [D -> Files]
  BY <1>1, <1>21
<1>4. DOMAIN r = D /\ \A n \in D : r[n] = s[p[n]] /\ p[n] \in D
  BY <1>21, SMTT(60)
<1> HIDE DEF r
<1>5. r \in Seq(Files) /\ Len(r) = Len(s)
  BY <1>1, <1>3
<1>6. ToSet(r) = ToSet(s)
  <2>1. \A n \in D : r[n] \in ToSet(s)
    BY <1>1, <1>4 DEF ToSet
  <2>2. \A j \in D : s[j] \in ToSet(r)
    BY <1>21, <1>4, SMTT(60) DEF ToSet
  <2>3. ToSet(r) \subseteq ToSet(s)
    BY <1>4, <2>1 DEF ToSet
  <2>4. ToSet(s) \subseteq ToSet(r)
    BY <1>1, <2>2 DEF ToSet
  <2> QED
    BY <2>3, <2>4
<1>7. ASSUME Single(s), NEW n \in D, NEW m \in D, r[n].key = r[m].key PROVE n = m
  <2>1. p[n] \in D /\ p[m] \in D /\ s[p[n]].key = s[p[m]].key
    BY <1>4, <1>7
  <2>2. p[n] = p[m]
    BY <1>1, <1>7, <2>1 DEF Single
  <2> QED
    BY <1>21, <2>2
<1>8. InOrder(r)
  BY <1>21, <1>4
<1>9. ASSUME NEW q \in Seq(Files), InOrder(q) PROVE Sorted(f, q) = q
  <2> DEFINE E == 1..Len(q)
             Precedes(i, j) == \/ Before(f.by, q[i], q[j])
                               \/ i < j /\ ~Before(f.by, q[j], q[i])
             Those(j) == {i \in E : Precedes(i, j)}
             t == [n \in E |-> q[CHOOSE j \in E : Cardinality(Those(j)) = n - 1]]
  <2>1. Len(q) \in Nat /\ DOMAIN q = E /\ \A i \in E : q[i] \in Files /\ i \in Nat
    OBVIOUS
  <2>2. Sorted(f, q) = t
    BY <2>1 DEF Sorted
  <2>3. \A i, j \in E : Precedes(i, j) <=> i < j
    <3> SUFFICES ASSUME NEW i \in E, NEW j \in E PROVE Precedes(i, j) <=> i < j
      OBVIOUS
    <3>1. /\ i < j => ~Before(f.by, q[j], q[i])
          /\ j < i => ~Before(f.by, q[i], q[j])
      BY <1>9, <2>1
    <3>2. ~Before(f.by, q[i], q[i])
      BY <2>1, BeforeFacts
    <3>3. i < j \/ i = j \/ j < i
      BY <2>1
    <3> QED
      BY <3>1, <3>2, <3>3
  <2> HIDE DEF Precedes
  <2>4. ASSUME NEW j \in E PROVE Cardinality(Those(j)) = j - 1
    <3>1. Those(j) = {i \in E : i < j}
      BY <2>3 DEF Those
    <3>4. {i \in E : i < j} = 1..j-1
      BY <2>1
    <3>2. 1 \in Int /\ j - 1 \in Int /\ j - 1 >= 0
      BY <2>1
    <3>3. Cardinality(1..j-1) = j - 1
      BY <3>2, FS_Interval
    <3> QED
      BY <3>1, <3>3, <3>4
  <2> HIDE DEF Those
  <2>5. ASSUME NEW n \in E PROVE (CHOOSE j \in E : Cardinality(Those(j)) = n - 1) = n
    <3> DEFINE k == CHOOSE j \in E : Cardinality(Those(j)) = n - 1
    <3>1. k \in E /\ Cardinality(Those(k)) = n - 1
      BY <2>4
    <3> HIDE DEF k
    <3>2. k - 1 = n - 1
      BY <2>4, <3>1
    <3>3. k = n
      BY <2>1, <3>1, <3>2
    <3> QED
      BY <3>3 DEF k
  <2>6. \A n \in E : t[n] = q[n]
    BY <2>5
  <2>7. t = q
    <3>1. DOMAIN t = E /\ t = [n \in E |-> t[n]]
      OBVIOUS
    <3> HIDE DEF t
    <3>2. q = [n \in E |-> q[n]]
      BY <2>1
    <3> QED
      BY <2>6, <3>1, <3>2
  <2> QED
    BY <2>2, <2>7
<1>10. Sorted(f, r) = r
  BY <1>5, <1>8, <1>9
<1> QED
  BY <1>4, <1>5, <1>6, <1>7, <1>10 DEF r, Single

(* Only by what is sorted matters. *)
LEMMA SortedSame ==
  ASSUME NEW f, NEW g, g.by = f.by, NEW s
  PROVE  Sorted(g, s) = Sorted(f, s)
  BY DEF Sorted

(* A finite set of files can be listed, each of them once. *)
LEMMA ListFiles ==
  ASSUME NEW S \in SUBSET Files, IsFiniteSet(S), \A x, y \in S : x.key = y.key => x = y
  PROVE  Single(SetToSeq(S))
<1> DEFINE m == Cardinality(S)
           q == SetToSeq(S)
<1>1. m \in Nat /\ ExistsBijection(1..m, S)
  BY FS_CardinalityType
<1>2. \E g \in [1..m -> S] : IsInjective(g)
  BY <1>1 DEF ExistsBijection, Bijection, Injection
<1>3. q \in [1..m -> S] /\ IsInjective(q)
  BY <1>2 DEF SetToSeq
<1> HIDE DEF q
<1>4. ASSUME NEW i \in DOMAIN q, NEW j \in DOMAIN q, q[i].key = q[j].key PROVE i = j
  <2>1. q[i] \in S /\ q[j] \in S
    BY <1>3
  <2>2. q[i] = q[j]
    BY <1>4, <2>1
  <2> QED
    BY <1>3, <2>2 DEF IsInjective
<1> QED
  BY <1>4 DEF Single, q

(* The elements of a list of the elements of a set. *)
LEMMA ListSet ==
  ASSUME NEW S, IsFiniteSet(S)
  PROVE  SetToSeq(S) \in Seq(S) /\ ToSet(SetToSeq(S)) = S
<1>1. SetToSeq(S) \in Seq(S) /\ \A x \in S : \E i \in DOMAIN SetToSeq(S) : SetToSeq(S)[i] = x
  BY ListFacts
<1> DEFINE q == SetToSeq(S)
<1> HIDE DEF q
<1>2. q \in Seq(S) /\ \A x \in S : \E i \in DOMAIN q : q[i] = x
  BY <1>1 DEF q
<1>3. \A i \in DOMAIN q : q[i] \in S
  BY <1>2
<1>4. ToSet(q) = S
  BY <1>2, <1>3 DEF ToSet
<1> QED
  BY <1>2, <1>4 DEF q

(* Where no key stands twice, all that is looked for is found. *)
LEMMA FirstAll ==
  ASSUME NEW s \in Seq(Files), Single(s), NEW keys
  PROVE  \A i \in 1..Len(s) : i \in First(s, keys) <=> s[i].key \in keys
<1>1. DOMAIN s = 1..Len(s) /\ Len(s) \in Nat
  OBVIOUS
<1>2. \A i \in 1..Len(s) : \A j \in 1..i-1 : j \in 1..Len(s) /\ j # i
  BY <1>1
<1>3. \A i \in 1..Len(s) : \A j \in 1..i-1 : s[j].key # s[i].key
  BY <1>1, <1>2 DEF Single
<1> QED
  BY <1>1, <1>3 DEF First

(* Files are taken out of a list. *)
LEMMA WithoutFiles ==
  ASSUME NEW s \in Seq(Files), NEW keys
  PROVE  LET r == Without(s, First(s, keys)) IN
         /\ r \in Seq(Files) /\ ToSet(r) \subseteq ToSet(s)
         /\ Single(s) => Single(r) /\ ToSet(r) = {x \in ToSet(s) : x.key \notin keys}
<1> DEFINE P == DOMAIN s \ First(s, keys)
           r == Pick(s, P)
<1>1. DOMAIN s = 1..Len(s)
  OBVIOUS
<1>2. P \in SUBSET (1..Len(s))
  BY <1>1
<1>3. \A i \in P : i \in DOMAIN s
  BY <1>1
<1> HIDE DEF P
<1>4. r \in Seq(Files) /\ ToSet(r) = {s[i] : i \in P} /\ (Single(s) => Single(r))
  BY <1>2, PickFiles
<1> HIDE DEF r
<1>5. ToSet(r) \subseteq ToSet(s)
  BY <1>3, <1>4 DEF ToSet
<1>6. ASSUME Single(s) PROVE ToSet(r) = {x \in ToSet(s) : x.key \notin keys}
  <2>1. \A i \in 1..Len(s) : i \in P <=> s[i].key \notin keys
    BY <1>1, <1>6, FirstAll DEF P
  <2>2. ToSet(s) = {s[i] : i \in 1..Len(s)}
    BY <1>1 DEF ToSet
  <2>3. \A x \in ToSet(r) : x \in ToSet(s) /\ x.key \notin keys
    BY <1>2, <1>4, <2>1, <2>2
  <2>4. \A x \in ToSet(s) : x.key \notin keys => x \in ToSet(r)
    BY <1>4, <2>1, <2>2
  <2> QED
    BY <2>3, <2>4
<1> QED
  BY <1>4, <1>5, <1>6 DEF r, P, Without

(* The new files that find no old one. *)
LEMMA RestFiles ==
  ASSUME NEW s \in Seq(Files), NEW K \in SUBSET Names, NEW files \in [K -> Files]
  PROVE  /\ Rest(s, files) \in Seq(Files)
         /\ ToSet(Rest(s, files)) = {files[k] : k \in K \ Keys(s)}
         /\ (\A k, l \in K : files[k].key = files[l].key => k = l) => Single(Rest(s, files))
<1> DEFINE D == K \ Keys(s)
           S == {files[k] : k \in D}
           g == [k \in D |-> files[k]]
<1>1. IsFiniteSet(D)
  BY NamesFinite, FS_Subset
<1>2. g \in Surjection(D, S)
  BY DEF Surjection
<1>3. IsFiniteSet(S)
  <2> HIDE DEF D, S, g
  <2> QED
    BY <1>1, <1>2, FS_Surjection
<1>4. S \subseteq Files /\ Rest(s, files) = SetToSeq(S)
  BY DEF Rest
<1>5. (\A k, l \in K : files[k].key = files[l].key => k = l)
        => \A x, y \in S : x.key = y.key => x = y
  OBVIOUS
<1> DEFINE r == SetToSeq(S)
<1> HIDE DEF S, r
<1>6. r \in Seq(S) /\ ToSet(r) = S
  BY <1>3, ListSet DEF r
<1>7. r \in Seq(Files)
  BY <1>4, <1>6
<1>8. (\A x, y \in S : x.key = y.key => x = y) => Single(r)
  BY <1>3, <1>4, ListFiles DEF r
<1> QED
  BY <1>4, <1>5, <1>6, <1>7, <1>8 DEF r, S

(* The new files in the places of old ones. *)
LEMMA ExistingFiles ==
  ASSUME NEW s \in Seq(Files), NEW K \in SUBSET Names, NEW files \in [K -> Files]
  PROVE  LET r == Existing(s, files) IN
         /\ r \in Seq(Files) /\ DOMAIN r = 1..Len(s)
         /\ \A i \in 1..Len(s) : r[i] = s[i] \/ (s[i].key \in K /\ r[i] = files[s[i].key])
         /\ Single(s) => \A i \in 1..Len(s) : r[i] = IF s[i].key \in K THEN files[s[i].key] ELSE s[i]
<1> DEFINE r == Existing(s, files)
           found == First(s, K)
<1>1. DOMAIN s = 1..Len(s) /\ Len(s) \in Nat /\ \A i \in 1..Len(s) : s[i] \in Files
  OBVIOUS
<1>2. /\ found \in SUBSET (1..Len(s)) /\ \A i \in found : s[i].key \in K
      /\ Single(s) => \A i \in 1..Len(s) : i \in found <=> s[i].key \in K
  BY FirstFacts, FirstAll
<1>3. r = [i \in 1..Len(s) |-> IF i \in found THEN files[s[i].key] ELSE s[i]]
  BY <1>1 DEF Existing
<1> HIDE DEF found, r
<1>4. r \in [1..Len(s) -> Files]
  BY <1>1, <1>2, <1>3
<1>5. r \in Seq(Files) /\ DOMAIN r = 1..Len(s)
  BY <1>1, <1>4
<1>6. \A i \in 1..Len(s) : r[i] = s[i] \/ (s[i].key \in K /\ r[i] = files[s[i].key])
  BY <1>2, <1>3
<1>7. Single(s) => \A i \in 1..Len(s) : r[i] = IF s[i].key \in K THEN files[s[i].key] ELSE s[i]
  BY <1>2, <1>3
<1> QED
  BY <1>5, <1>6, <1>7 DEF r

(* r has the files of s but for those with keys in K, which map to new ones. *)
Upserts(s, K, files, r) ==
  /\ r \in Seq(Files)
  /\ \A x \in ToSet(r) : x \in ToSet(s) \/ \E k \in K : x = files[k]
  /\ Single(s) /\ (\A k, l \in K : files[k].key = files[l].key => k = l)
       /\ (\A k \in K : files[k].key \in Keys(s) => files[k].key = k)
     => Single(r) /\ ToSet(r) = {x \in ToSet(s) : x.key \notin K} \cup {files[k] : k \in K}

(* New files take the places of old ones, or come at the end. *)
LEMMA UpsertFiles ==
  ASSUME NEW s \in Seq(Files), NEW K \in SUBSET Names, NEW files \in [K -> Files]
  PROVE  Upserts(s, K, files, Existing(s, files) \o Rest(s, files))
<1> DEFINE e == Existing(s, files)
           q == Rest(s, files)
           S == {x \in ToSet(s) : x.key \notin K}
<1>1. /\ DOMAIN s = 1..Len(s) /\ Keys(s) = {s[i].key : i \in 1..Len(s)}
      /\ \A i \in 1..Len(s) : s[i] \in Files /\ s[i].key \in Keys(s)
      /\ ToSet(s) = {s[i] : i \in 1..Len(s)}
  BY KeysNames DEF ToSet
<1>2. /\ e \in Seq(Files) /\ DOMAIN e = 1..Len(s)
      /\ \A i \in 1..Len(s) : e[i] = s[i] \/ (s[i].key \in K /\ e[i] = files[s[i].key])
      /\ Single(s) => \A i \in 1..Len(s) : e[i] = IF s[i].key \in K THEN files[s[i].key] ELSE s[i]
  BY ExistingFiles, SMTT(60)
<1>3. /\ q \in Seq(Files) /\ ToSet(q) = {files[k] : k \in K \ Keys(s)}
      /\ (\A k, l \in K : files[k].key = files[l].key => k = l) => Single(q)
  BY RestFiles
<1> HIDE DEF e, q
<1>4. /\ e \o q \in Seq(Files) /\ ToSet(e \o q) = ToSet(e) \cup ToSet(q)
      /\ Single(e) /\ Single(q) /\ Keys(e) \cap Keys(q) = {} => Single(e \o q)
  BY <1>2, <1>3, ConcatFiles
<1>5. ToSet(e) = {e[i] : i \in 1..Len(s)} /\ Keys(e) = {e[i].key : i \in 1..Len(s)}
  BY <1>2 DEF ToSet, Keys
<1>6. Keys(q) = {x.key : x \in ToSet(q)}
  BY <1>3, KeysOf
<1>7. ASSUME NEW x \in ToSet(e \o q) PROVE x \in ToSet(s) \/ \E k \in K : x = files[k]
  <2>1. CASE x \in ToSet(q)
    BY <1>3, <2>1
  <2>2. CASE x \in ToSet(e)
    <3>1. PICK i \in 1..Len(s) : x = e[i]
      BY <1>5, <2>2
    <3> QED
      BY <1>1, <1>2, <3>1
  <2> QED
    BY <1>4, <2>1, <2>2
<1>8. ASSUME Single(s), \A k, l \in K : files[k].key = files[l].key => k = l,
             \A k \in K : files[k].key \in Keys(s) => files[k].key = k
      PROVE  Single(e \o q) /\ ToSet(e \o q) = S \cup {files[k] : k \in K}
  <2>1. \A i \in 1..Len(s) : e[i] = IF s[i].key \in K THEN files[s[i].key] ELSE s[i]
    BY <1>2, <1>8
  <2>2. \A i, j \in 1..Len(s) : s[i].key = s[j].key => i = j
    BY <1>1, <1>8 DEF Single
  <2>3. \A i, j \in 1..Len(s) : e[i].key = e[j].key => s[i].key = s[j].key
    <3> SUFFICES ASSUME NEW i \in 1..Len(s), NEW j \in 1..Len(s), e[i].key = e[j].key
                 PROVE  s[i].key = s[j].key
      OBVIOUS
    <3>1. CASE s[i].key \in K /\ s[j].key \in K
      BY <1>8, <2>1, <3>1
    <3>2. CASE s[i].key \in K /\ s[j].key \notin K
      BY <1>1, <1>8, <2>1, <3>2
    <3>3. CASE s[i].key \notin K /\ s[j].key \in K
      BY <1>1, <1>8, <2>1, <3>3
    <3>4. CASE s[i].key \notin K /\ s[j].key \notin K
      BY <2>1, <3>4
    <3> QED
      BY <3>1, <3>2, <3>3, <3>4
  <2>4. Single(e)
    BY <1>2, <2>2, <2>3 DEF Single
  <2>5. ASSUME NEW i \in 1..Len(s), NEW k \in K \ Keys(s), e[i].key = files[k].key PROVE FALSE
    <3>1. CASE s[i].key \in K
      BY <1>1, <1>8, <2>1, <2>5, <3>1
    <3>2. CASE s[i].key \notin K
      BY <1>1, <1>8, <2>1, <2>5, <3>2
    <3> QED
      BY <3>1, <3>2
  <2>6. Keys(e) \cap Keys(q) = {}
    BY <1>3, <1>5, <1>6, <2>5
  <2>7. Single(e \o q)
    BY <1>3, <1>4, <1>8, <2>4, <2>6
  <2>8. ASSUME NEW x \in ToSet(e) PROVE x \in S \cup {files[k] : k \in K}
    <3>1. PICK i \in 1..Len(s) : x = e[i]
      BY <1>5
    <3> QED
      BY <1>1, <2>1, <3>1
  <2>9. ASSUME NEW x \in S PROVE x \in ToSet(e)
    <3>1. PICK i \in 1..Len(s) : x = s[i]
      BY <1>1
    <3> QED
      BY <1>5, <2>1, <3>1
  <2>10. ASSUME NEW k \in K PROVE files[k] \in ToSet(e) \cup ToSet(q)
    <3>1. CASE k \in Keys(s)
      <4>1. PICK i \in 1..Len(s) : s[i].key = k
        BY <1>1, <3>1
      <4> QED
        BY <1>5, <2>1, <4>1
    <3>2. CASE k \notin Keys(s)
      BY <1>3, <3>2
    <3> QED
      BY <3>1, <3>2
  <2>11. ToSet(q) \subseteq {files[k] : k \in K}
    BY <1>3
  <2>12. ToSet(e \o q) = S \cup {files[k] : k \in K}
    <3>1. ToSet(e \o q) \subseteq S \cup {files[k] : k \in K}
      BY <1>4, <2>8, <2>11
    <3>2. S \subseteq ToSet(e \o q)
      BY <1>4, <2>9
    <3>3. {files[k] : k \in K} \subseteq ToSet(e \o q)
      BY <1>4, <2>10
    <3> QED
      BY <3>1, <3>2, <3>3
  <2> QED
    BY <2>7, <2>12
<1> QED
  BY <1>4, <1>7, <1>8 DEF e, q, Upserts

(* What a folder lists, *)
Listing(f) == ToSet(f.items) \cup ToSet(f.hidden)

(* each of it once in its list, *)
Unique(f) == Single(f.items) /\ Single(f.hidden)

(* in the list that is right for it, *)
Parted(f) ==
  /\ \A x \in ToSet(f.items) : Visible(f, x.key)
  /\ \A x \in ToSet(f.hidden) : ~Visible(f, x.key)

(* and in order, unless that is known not to be so. *)
Tidy(f) == f.unsorted \/ f.items = Sorted(f, f.items)

(* From f to g the cursor is set and nothing else that matters here. *)
Steady(f, g) ==
  /\ g.items = f.items /\ g.hidden = f.hidden /\ g.ticket = f.ticket /\ g.unsorted = f.unsorted
  /\ g.by = f.by /\ g.filter = f.filter /\ g.show = f.show /\ g.stage = f.stage /\ g.stale = f.stale

(* From f to g the same files are listed, hidden, shown and sorted otherwise. *)
Rearranges(f, g) ==
  /\ g \in Folder /\ g.ticket = f.ticket /\ g.stage = f.stage /\ g.stale = f.stale
  /\ Listing(g) = Listing(f)
  /\ Parted(f) => Parted(g) /\ (Unique(f) => Unique(g))
  /\ Tidy(f) => Tidy(g)

(* One such step after another is one, too, *)
LEMMA SteadyTwice ==
  ASSUME NEW f, NEW g, NEW h, Steady(f, g), Steady(g, h)
  PROVE  Steady(f, h)
  BY DEF Steady

(* and so it is with rearranging. *)
LEMMA RearrangesTwice ==
  ASSUME NEW f, NEW g, NEW h, Rearranges(f, g), Rearranges(g, h)
  PROVE  Rearranges(f, h)
  BY DEF Rearranges

(* To set the cursor is one way. *)
LEMMA SteadyRearranges ==
  ASSUME NEW f, NEW g \in Folder, Steady(f, g)
  PROVE  Rearranges(f, g)
<1>1. Sorted(g, f.items) = Sorted(f, f.items)
  BY SortedSame DEF Steady
<1>2. \A n : Visible(g, n) = Visible(f, n)
  BY DEF Visible, Steady
<1>3. Tidy(f) => Tidy(g)
  BY <1>1, SMTT(60) DEF Steady, Tidy
<1>4. Listing(g) = Listing(f) /\ (Parted(f) => Parted(g)) /\ (Unique(f) => Unique(g))
  BY <1>2, SMTT(60) DEF Steady, Listing, Parted, Unique
<1> QED
  BY <1>3, <1>4 DEF Rearranges, Steady

(* Moving the cursor by some lines, *)
LEMMA ArrowSteady ==
  ASSUME NEW f \in Folder, NEW n
  PROVE  Steady(f, Arrow(f, n))
  BY DEF Folder, Arrow, ArrowTo, Squeeze, Scroll, Steady

(* around the ends, *)
LEMMA ArrowAroundSteady ==
  ASSUME NEW f \in Folder, NEW n
  PROVE  Steady(f, ArrowAround(f, n))
  BY DEF Folder, ArrowAround, ArrowTo, Squeeze, Scroll, Steady

(* taking its file for the trace, *)
LEMMA RetraceSteady ==
  ASSUME NEW f \in Folder
  PROVE  Steady(f, Retrace(f))
  BY SMTT(60) DEF Folder, Retrace, Steady

(* the end of a handler, *)
LEMMA CalmSteady ==
  ASSUME NEW f \in Folder
  PROVE  Steady(f, Calm(f)) /\ Calm(f) \in Folder
  BY ZenonT(60) DEF Folder, Calm, Steady

(* taking it after a move, *)
LEMMA RetracedSteady ==
  ASSUME NEW f \in Folder, NEW n
  PROVE  Steady(f, Retrace(Arrow(f, n)))
<1> DEFINE g == Arrow(f, n)
<1>1. Steady(f, g)
  BY ArrowSteady, Zenon
<1>2. DOMAIN g = DOMAIN f
  BY DEF Arrow, ArrowTo, Squeeze, Scroll
<1>3. /\ "trace" \in DOMAIN f
      /\ {"items", "hidden", "ticket", "unsorted", "by", "filter", "show", "stage", "stale"}
           \subseteq DOMAIN f
  BY DEF Folder
<1> HIDE DEF g
<1>4. Steady(g, Retrace(g))
  BY <1>2, <1>3 DEF Steady, Retrace
<1> QED
  BY <1>1, <1>4, SteadyTwice DEF g

(* and going to a file set the cursor and no more. *)
LEMMA HoverKeySteady ==
  ASSUME NEW f \in Folder, NEW k \in Names
  PROVE  Steady(f, HoverKey(f, k)) /\ HoverKey(f, k) \in Folder
<1>1. HoverKey(f, k) \in Folder
  BY HoverKeyFacts DEF Points
<1>2. Steady(f, HoverKey(f, k))
  BY RetracedSteady, ArrowSteady DEF HoverKey
<1> QED
  BY <1>1, <1>2

(* And so is mgr:hover, *)
LEMMA HoverSteady ==
  ASSUME NEW f \in Folder, NEW at \in Spots
  PROVE  Steady(f, Hover(f, at)) /\ Hover(f, at) \in Folder
<1>1. Hover(f, at) \in Folder
  BY HoverFacts DEF Points
<1>2. at = Home \/ at \in Names
  BY TabAssumption DEF Spots
<1>3. Home \notin Names /\ None \notin Names /\ f.trace \in Names \cup {None}
  BY TabAssumption, PaneAssumption, FolderFacts
<1> DEFINE k == IF at = Home THEN None ELSE at
<1>4. k \in Names \cup {None}
  BY <1>2
<1>5. Hover(f, at) = Repos(f, k)
  BY DEF Hover
<1> HIDE DEF k
<1>6. CASE k # None
  BY <1>4, <1>5, <1>6, HoverKeySteady, <1>1 DEF Repos
<1>7. CASE k = None /\ f.trace # None
  <2> DEFINE h == HoverKey(f, f.trace)
  <2>1. Steady(f, h) /\ h \in Folder
    BY <1>3, <1>7, HoverKeySteady
  <2> HIDE DEF h
  <2>2. Steady(h, [h EXCEPT !.trace = f.trace])
    BY <2>1 DEF Steady, Folder
  <2>3. Hover(f, at) = [h EXCEPT !.trace = f.trace]
    BY <1>5, <1>7 DEF Repos, h
  <2> QED
    BY <2>1, <2>2, <2>3, <1>1, SteadyTwice
<1>8. CASE k = None /\ f.trace = None
  BY <1>1, <1>5, <1>8, ArrowSteady DEF Repos
<1> QED
  BY <1>6, <1>7, <1>8

(* on the directory that the tab is in or on a file. *)
LEMMA HoverOnSteady ==
  ASSUME NEW f \in Folder, NEW k \in Names
  PROVE  Steady(f, HoverOn(f, k)) /\ HoverOn(f, k) \in Folder
<1> DEFINE g == HoverKey(f, k)
<1>1. Steady(f, g) /\ g \in Folder
  BY HoverKeySteady
<1>2. g = Repos(f, k)
  BY PaneAssumption DEF Repos
<1>3. HoverOn(f, k) \in Folder
  BY HoverOnFacts DEF Points
<1>4. HoverOn(f, k) = IF Hovered(g) = k THEN [g EXCEPT !.trace = k] ELSE g
  BY <1>2 DEF HoverOn
<1> HIDE DEF g
<1>5. Steady(g, [g EXCEPT !.trace = k])
  BY <1>1 DEF Steady, Folder
<1> QED
  BY <1>1, <1>3, <1>4, <1>5, SteadyTwice

(* A new list that is not in order is known not to be. *)
LEMMA RelistsTidy ==
  ASSUME NEW f \in Folder, NEW g, Relists(f, g), g.by = f.by
  PROVE  Tidy(f) => Tidy(g)
<1>1. Sorted(g, f.items) = Sorted(f, f.items)
  BY SortedSame
<1> QED
  BY <1>1 DEF Relists, Tidy

(* Other orders, *)
LEMMA SorterRearranges ==
  ASSUME NEW f \in Folder, NEW by \in {"name", "time"}
  PROVE  LET g == SetSorter(f, by) IN
         Rearranges(f, g) /\ g.show = f.show /\ g.by = by /\ g.filter = f.filter
<1> DEFINE g == SetSorter(f, by)
<1>1. /\ g \in Folder /\ g.ticket = f.ticket /\ g.stage = f.stage /\ g.stale = f.stale
      /\ g.items = f.items /\ g.hidden = f.hidden /\ g.show = f.show /\ g.filter = f.filter
      /\ g.by = by /\ (g.by = f.by => g = f) /\ (g.by # f.by => g.unsorted)
  BY DEF SetSorter, Revise, Folder
<1> HIDE DEF g
<1>2. Tidy(f) => Tidy(g)
  BY <1>1 DEF Tidy
<1>3. \A n : Visible(g, n) = Visible(f, n)
  BY <1>1 DEF Visible
<1> QED
  BY <1>1, <1>2, <1>3 DEF Rearranges, Listing, Parted, Unique, g

(* hidden files shown or not, *)
LEMMA ShowHiddenRearranges ==
  ASSUME NEW f \in Folder, NEW show \in BOOLEAN
  PROVE  LET g == SetShowHidden(f, show) IN
         Rearranges(f, g) /\ g.show = show /\ g.by = f.by /\ g.filter = f.filter
<1> DEFINE h == SetShowHidden(f, show)
           g == [f EXCEPT !.show = show]
           on == Split(g, f.hidden)
           off == Split(g, f.items)
<1>1. /\ f.items \in Seq(Files) /\ f.hidden \in Seq(Files) /\ f.show \in BOOLEAN
      /\ Relists(f, h) /\ h \in Folder
  BY FolderFacts, ShowHiddenFacts DEF Relists
<1>2. /\ h.show = show /\ h.by = f.by /\ h.filter = f.filter
      /\ h.ticket = f.ticket /\ h.stage = f.stage /\ h.stale = f.stale
      /\ f.show = show => h = f
      /\ f.show # show /\ show => h.items = f.items \o on.items /\ h.hidden = on.hidden
      /\ f.show # show /\ ~show => h.items = off.items /\ h.hidden = f.hidden \o off.hidden
  BY DEF SetShowHidden, Revise, Folder
<1>3. \A n : Visible(g, n) = Visible(h, n)
  BY <1>2 DEF Visible, Folder
<1>4. /\ show => \A n : Visible(f, n) => Visible(h, n)
      /\ ~show => \A n : Visible(h, n) => Visible(f, n)
  BY <1>2 DEF Visible
<1>5. /\ ToSet(on.items) = {x \in ToSet(f.hidden) : Visible(g, x.key)}
      /\ ToSet(on.hidden) = {x \in ToSet(f.hidden) : ~Visible(g, x.key)}
      /\ Single(f.hidden) => Single(on.items) /\ Single(on.hidden)
      /\ on.items \in Seq(Files) /\ on.hidden \in Seq(Files)
  BY <1>1, SplitFiles, SplitFacts
<1>6. /\ ToSet(off.items) = {x \in ToSet(f.items) : Visible(g, x.key)}
      /\ ToSet(off.hidden) = {x \in ToSet(f.items) : ~Visible(g, x.key)}
      /\ Single(f.items) => Single(off.items) /\ Single(off.hidden)
      /\ off.items \in Seq(Files) /\ off.hidden \in Seq(Files)
  BY <1>1, SplitFiles, SplitFacts
<1> HIDE DEF h, g, on, off
<1>7. Tidy(f) => Tidy(h)
  BY <1>1, <1>2, RelistsTidy
<1>8. CASE f.show = show
  BY <1>1, <1>2, <1>8 DEF Rearranges, h
<1>9. CASE f.show # show /\ show
  <2>1. /\ ToSet(h.items) = ToSet(f.items) \cup ToSet(on.items) /\ h.hidden = on.hidden
        /\ Single(f.items) /\ Single(on.items) /\ Keys(f.items) \cap Keys(on.items) = {}
             => Single(h.items)
    BY <1>1, <1>2, <1>5, <1>9, ConcatFiles, ZenonT(60)
  <2>2. Listing(h) = Listing(f)
    BY <1>5, <2>1 DEF Listing
  <2>3. Parted(f) => Parted(h)
    BY <1>3, <1>4, <1>5, <1>9, <2>1 DEF Parted
  <2>4. Keys(f.items) = {x.key : x \in ToSet(f.items)} /\ Keys(on.items) = {x.key : x \in ToSet(on.items)}
    BY <1>1, <1>5, KeysOf
  <2>5. Parted(f) => Keys(f.items) \cap Keys(on.items) = {}
    BY <1>5, <2>4 DEF Parted
  <2>6. Parted(f) /\ Unique(f) => Unique(h)
    BY <1>5, <2>1, <2>5 DEF Unique
  <2> QED
    BY <1>1, <1>2, <1>7, <2>2, <2>3, <2>6 DEF Rearranges, h
<1>10. CASE f.show # show /\ ~show
  <2>1. /\ ToSet(h.hidden) = ToSet(f.hidden) \cup ToSet(off.hidden) /\ h.items = off.items
        /\ Single(f.hidden) /\ Single(off.hidden) /\ Keys(f.hidden) \cap Keys(off.hidden) = {}
             => Single(h.hidden)
    BY <1>1, <1>2, <1>6, <1>10, ConcatFiles
  <2>2. Listing(h) = Listing(f)
    BY <1>6, <2>1 DEF Listing
  <2>3. Parted(f) => Parted(h)
    BY <1>3, <1>4, <1>6, <1>10, <2>1 DEF Parted
  <2>4. Keys(f.hidden) = {x.key : x \in ToSet(f.hidden)} /\ Keys(off.hidden) = {x.key : x \in ToSet(off.hidden)}
    BY <1>1, <1>6, KeysOf
  <2>5. Parted(f) => Keys(f.hidden) \cap Keys(off.hidden) = {}
    BY <1>6, <2>4 DEF Parted
  <2>6. Parted(f) /\ Unique(f) => Unique(h)
    BY <1>6, <2>1, <2>5 DEF Unique
  <2> QED
    BY <1>1, <1>2, <1>7, <2>2, <2>3, <2>6 DEF Rearranges, h
<1> QED
  BY <1>1, <1>8, <1>9, <1>10

(* and a filter. *)
LEMMA FilterRearranges ==
  ASSUME NEW f \in Folder, NEW on \in BOOLEAN
  PROVE  LET g == SetFilter(f, on) IN
         Rearranges(f, g) /\ g.show = f.show /\ g.by = f.by /\ g.unsorted = f.unsorted
<1> DEFINE h == SetFilter(f, on)
           g == [f EXCEPT !.filter = on]
           all == Split(g, f.items \o f.hidden)
           back == Split(g, f.hidden)
           more == f.items \o back.items
<1>1. /\ f.items \in Seq(Files) /\ f.hidden \in Seq(Files) /\ f.filter \in BOOLEAN
      /\ f.by \in {"name", "time"} /\ h \in Folder
  BY FolderFacts, FilterFacts
<1>2. /\ h.show = f.show /\ h.by = f.by /\ h.filter = on /\ h.unsorted = f.unsorted
      /\ h.ticket = f.ticket /\ h.stage = f.stage /\ h.stale = f.stale
      /\ f.filter = on => h = f
      /\ f.filter # on /\ on => h.items = Sorted(f, all.items) /\ h.hidden = all.hidden
      /\ f.filter # on /\ ~on /\ back.items # <<>> => h.items = Sorted(f, more)
      /\ f.filter # on /\ ~on /\ back.items = <<>> => h.items = more
      /\ f.filter # on /\ ~on => h.hidden = back.hidden
  BY DEF SetFilter, Folder
<1>3. \A n : Visible(g, n) = Visible(h, n)
  BY <1>2 DEF Visible, Folder
<1>4. ~on => \A n : Visible(f, n) => Visible(h, n)
  BY <1>2 DEF Visible
<1> HIDE DEF h, g
<1>5. /\ f.items \o f.hidden \in Seq(Files)
      /\ ToSet(f.items \o f.hidden) = Listing(f)
      /\ Single(f.items) /\ Single(f.hidden) /\ Keys(f.items) \cap Keys(f.hidden) = {}
           => Single(f.items \o f.hidden)
  BY <1>1, ConcatFiles DEF Listing
<1>6. Keys(f.items) = {x.key : x \in ToSet(f.items)} /\ Keys(f.hidden) = {x.key : x \in ToSet(f.hidden)}
  BY <1>1, KeysOf
<1>7. Parted(f) => Keys(f.items) \cap Keys(f.hidden) = {}
  BY <1>6 DEF Parted
<1>8. /\ ToSet(all.items) = {x \in Listing(f) : Visible(g, x.key)}
      /\ ToSet(all.hidden) = {x \in Listing(f) : ~Visible(g, x.key)}
      /\ Single(f.items \o f.hidden) => Single(all.items) /\ Single(all.hidden)
      /\ all.items \in Seq(Files) /\ all.hidden \in Seq(Files)
  BY <1>5, SplitFiles, SplitFacts, ZenonT(60)
<1>9. /\ ToSet(back.items) = {x \in ToSet(f.hidden) : Visible(g, x.key)}
      /\ ToSet(back.hidden) = {x \in ToSet(f.hidden) : ~Visible(g, x.key)}
      /\ Single(f.hidden) => Single(back.items) /\ Single(back.hidden)
      /\ back.items \in Seq(Files) /\ back.hidden \in Seq(Files)
  BY <1>1, SplitFiles, SplitFacts
<1> HIDE DEF all, back
<1>10. CASE f.filter = on
  BY <1>1, <1>2, <1>10 DEF Rearranges, h
<1>11. CASE f.filter # on /\ on
  <2>1. /\ ToSet(h.items) = ToSet(all.items) /\ (Single(all.items) => Single(h.items))
        /\ Sorted(f, h.items) = h.items /\ h.hidden = all.hidden
    BY <1>1, <1>2, <1>8, <1>11, SortedFiles
  <2>2. Tidy(h)
    BY <1>2, <2>1, SortedSame DEF Tidy
  <2>3. Listing(h) = Listing(f)
    BY <1>8, <2>1 DEF Listing
  <2>4. Parted(h)
    BY <1>3, <1>8, <2>1 DEF Parted
  <2>5. Parted(f) /\ Unique(f) => Unique(h)
    BY <1>5, <1>7, <1>8, <2>1 DEF Unique
  <2> QED
    BY <1>1, <1>2, <2>2, <2>3, <2>4, <2>5 DEF Rearranges, h
<1>12. CASE f.filter # on /\ ~on
  <2>1. /\ more \in Seq(Files) /\ ToSet(more) = ToSet(f.items) \cup ToSet(back.items)
        /\ Single(f.items) /\ Single(back.items) /\ Keys(f.items) \cap Keys(back.items) = {}
             => Single(more)
    BY <1>1, <1>9, ConcatFiles
  <2>2. back.items = <<>> => more = f.items
    BY <1>1
  <2>3. Keys(back.items) = {x.key : x \in ToSet(back.items)}
    BY <1>9, KeysOf
  <2>4. Parted(f) => Keys(f.items) \cap Keys(back.items) = {}
    BY <1>6, <1>9, <2>3 DEF Parted
  <2> HIDE DEF more
  <2>5. ToSet(h.items) = ToSet(more) /\ (Single(more) => Single(h.items))
    BY <1>1, <1>2, <1>12, <2>1, SortedFiles
  <2>6. back.items # <<>> => Sorted(f, h.items) = h.items
    BY <1>1, <1>2, <1>12, <2>1, SortedFiles
  <2>7. Tidy(f) => Tidy(h)
    BY <1>2, <1>12, <2>2, <2>6, SortedSame DEF Tidy
  <2>8. h.hidden = back.hidden
    BY <1>2, <1>12
  <2>9. Listing(h) = Listing(f)
    BY <1>9, <2>1, <2>5, <2>8 DEF Listing
  <2>10. Parted(f) => Parted(h)
    BY <1>3, <1>4, <1>9, <1>12, <2>1, <2>5, <2>8 DEF Parted
  <2>11. Parted(f) /\ Unique(f) => Unique(h)
    BY <1>9, <2>1, <2>4, <2>5, <2>8 DEF Unique
  <2> QED
    BY <1>1, <1>2, <2>7, <2>9, <2>10, <2>11 DEF Rearranges, h
<1> QED
  BY <1>1, <1>2, <1>10, <1>11, <1>12 DEF h

(* The entries are put in order, and the cursor follows. *)
LEMMA CatchupRearranges ==
  ASSUME NEW f \in Folder, NEW at \in Spots
  PROVE  LET g == Catchup(f, at) IN
         /\ Rearranges(f, g) /\ g.show = f.show /\ g.by = f.by /\ g.filter = f.filter /\ ~g.unsorted
<1> DEFINE r == [f EXCEPT !.items = Sorted(f, @), !.unsorted = FALSE]
<1>1. /\ f.items \in Seq(Files) /\ f.by \in {"name", "time"} /\ f.unsorted \in BOOLEAN
  BY FolderFacts
<1>2. /\ Sorted(f, f.items) \in Seq(Files) /\ ToSet(Sorted(f, f.items)) = ToSet(f.items)
      /\ Single(f.items) => Single(Sorted(f, f.items))
      /\ Sorted(f, Sorted(f, f.items)) = Sorted(f, f.items)
  BY <1>1, SortedFiles
<1>3. /\ r \in Folder /\ r.items = Sorted(f, f.items) /\ r.hidden = f.hidden /\ ~r.unsorted
      /\ r.show = f.show /\ r.by = f.by /\ r.filter = f.filter
      /\ r.ticket = f.ticket /\ r.stage = f.stage /\ r.stale = f.stale
  BY <1>2 DEF Folder
<1> HIDE DEF r
<1>4. \A n : Visible(r, n) = Visible(f, n)
  BY <1>3 DEF Visible
<1>5. Tidy(r)
  BY <1>2, <1>3, SortedSame DEF Tidy
<1>6. Rearranges(f, r)
  BY <1>2, <1>3, <1>4, <1>5 DEF Rearranges, Listing, Parted, Unique
<1>7. Steady(r, Hover(r, at)) /\ Rearranges(r, Hover(r, at))
  BY <1>3, HoverSteady, SteadyRearranges
<1>8. CASE f.unsorted
  <2>1. Catchup(f, at) = Hover(r, at)
    BY <1>8 DEF Catchup, r
  <2> QED
    BY <1>3, <1>6, <1>7, <2>1, RearrangesTwice DEF Steady
<1>9. CASE ~f.unsorted
  <2>1. Catchup(f, at) = f
    BY <1>9 DEF Catchup
  <2> QED
    BY <1>9, <2>1 DEF Rearranges
<1> QED
  BY <1>1, <1>8, <1>9

(* Hidden files are shown or not, and the entries sorted, as is preferred. *)
LEMMA HideRearranges ==
  ASSUME NEW f \in Folder, NEW at \in Spots, NEW show \in BOOLEAN
  PROVE  LET g == Hide(f, at, show) IN
         /\ Rearranges(f, g) /\ g.by = f.by /\ g.filter = f.filter
         /\ f.stage = "Loaded" => g.show = show /\ ~g.unsorted
<1> DEFINE r == SetShowHidden(f, show)
<1>1. Rearranges(f, r) /\ r.show = show /\ r.by = f.by /\ r.filter = f.filter
  BY ShowHiddenRearranges
<1>2. r \in Folder
  BY <1>1 DEF Rearranges
<1> HIDE DEF r
<1>3. LET g == Catchup(r, at) IN
      Rearranges(r, g) /\ g.show = r.show /\ g.by = r.by /\ g.filter = r.filter /\ ~g.unsorted
  BY <1>2, CatchupRearranges
<1>4. CASE f.stage = "Loading"
  BY <1>4 DEF Hide, Rearranges
<1>5. CASE f.stage # "Loading"
  <2>1. Hide(f, at, show) = Catchup(r, at)
    BY <1>5 DEF Hide, r
  <2> QED
    BY <1>1, <1>3, <2>1, RearrangesTwice
<1> QED
  BY <1>4, <1>5

(* So does sorting, *)
LEMMA SortRearranges ==
  ASSUME NEW f \in Folder, NEW at \in Spots, NEW by \in {"name", "time"}
  PROVE  LET g == Sort(f, at, by) IN
         /\ Rearranges(f, g) /\ g.show = f.show /\ g.filter = f.filter
         /\ f.stage = "Loaded" => g.by = by /\ ~g.unsorted
<1> DEFINE r == SetSorter(f, by)
<1>1. Rearranges(f, r) /\ r.show = f.show /\ r.by = by /\ r.filter = f.filter
  BY SorterRearranges
<1>2. r \in Folder
  BY <1>1 DEF Rearranges
<1> HIDE DEF r
<1>3. LET g == Catchup(r, at) IN
      Rearranges(r, g) /\ g.show = r.show /\ g.by = r.by /\ g.filter = r.filter /\ ~g.unsorted
  BY <1>2, CatchupRearranges
<1>4. CASE f.stage = "Loading"
  BY <1>4 DEF Sort, Rearranges
<1>5. CASE f.stage # "Loading"
  <2>1. Sort(f, at, by) = Catchup(r, at)
    BY <1>5 DEF Sort, r
  <2> QED
    BY <1>1, <1>3, <2>1, RearrangesTwice
<1> QED
  BY <1>4, <1>5

(* A folder that is loaded is shown as p has it. *)
AsPreferred(f, p) == f.stage = "Loaded" => ~f.unsorted /\ f.show = p.show /\ f.by = p.by

(* and both, after which the folder is as preferred. *)
LEMMA PreferRearranges ==
  ASSUME NEW f \in Folder, NEW at \in Spots, PrefOK
  PROVE  Rearranges(f, Prefer(f, at)) /\ AsPreferred(Prefer(f, at), pref)
<1> DEFINE r == Hide(f, at, pref.show)
           g == Sort(r, at, pref.by)
<1>1. pref.show \in BOOLEAN /\ pref.by \in {"name", "time"}
  BY DEF PrefOK
<1>2. Rearranges(f, r) /\ (f.stage = "Loaded" => r.show = pref.show /\ ~r.unsorted)
  BY <1>1, HideRearranges
<1>3. r \in Folder /\ r.stage = f.stage
  BY <1>2 DEF Rearranges
<1> HIDE DEF r
<1>4. Rearranges(r, g) /\ g.show = r.show /\ (r.stage = "Loaded" => g.by = pref.by /\ ~g.unsorted)
  BY <1>1, <1>3, SortRearranges
<1>5. Prefer(f, at) = g
  BY DEF Prefer, r
<1> HIDE DEF g
<1> QED
  BY <1>2, <1>3, <1>4, <1>5, RearrangesTwice DEF AsPreferred, Rearranges

(* A steady folder stays as preferred. *)
LEMMA SteadyPreferred ==
  ASSUME NEW f, NEW g, NEW p, Steady(f, g), AsPreferred(f, p)
  PROVE  AsPreferred(g, p)
  BY DEF Steady, AsPreferred

(* At the end of an update, *)
LEMMA SettleRearranges ==
  ASSUME NEW f \in Folder, cwd \in Spots, PrefOK
  PROVE  Rearranges(f, Settle(f)) /\ AsPreferred(Settle(f), pref)
<1> DEFINE g == Prefer(f, cwd)
           h == IF g.bumped THEN Hover(g, cwd) ELSE g
<1>1. Rearranges(f, g) /\ AsPreferred(g, pref) /\ g \in Folder
  BY PreferRearranges DEF Rearranges
<1>2. Settle(f) = Calm(h)
  BY DEF Settle
<1> HIDE DEF g
<1>3. Steady(g, Hover(g, cwd)) /\ Hover(g, cwd) \in Folder /\ Steady(g, g)
  BY <1>1, HoverSteady DEF Steady
<1>4. Steady(g, h) /\ h \in Folder
  BY <1>1, <1>3
<1> HIDE DEF h
<1>5. Steady(h, Calm(h)) /\ Calm(h) \in Folder
  BY <1>4, CalmSteady
<1>6. Steady(g, Calm(h))
  BY <1>4, <1>5, SteadyTwice
<1>7. Rearranges(g, Calm(h)) /\ AsPreferred(Calm(h), pref)
  BY <1>1, <1>5, <1>6, SteadyRearranges, SteadyPreferred
<1> QED
  BY <1>1, <1>2, <1>7, RearrangesTwice

(* or when the tab has gone somewhere. *)
LEMMA GoneRearranges ==
  ASSUME NEW f \in Folder, NEW to \in Spots, PrefOK
  PROVE  LET g == Calm(Hover(Prefer(f, to), to)) IN Rearranges(f, g) /\ AsPreferred(g, pref)
<1> DEFINE g == Prefer(f, to)
           h == Hover(g, to)
<1>1. Rearranges(f, g) /\ AsPreferred(g, pref) /\ g \in Folder
  BY PreferRearranges DEF Rearranges
<1> HIDE DEF g
<1>2. Steady(g, h) /\ h \in Folder
  BY <1>1, HoverSteady
<1> HIDE DEF h
<1>3. Steady(h, Calm(h)) /\ Calm(h) \in Folder
  BY <1>2, CalmSteady
<1>4. Rearranges(g, Calm(h)) /\ AsPreferred(Calm(h), pref)
  BY <1>1, <1>2, <1>3, SteadyTwice, SteadyRearranges, SteadyPreferred
<1> QED
  BY <1>1, <1>4, RearrangesTwice DEF g, h

(* From f to g the entries are others, in the right lists and in order. *)
Alters(f, g) ==
  /\ g \in Folder
  /\ g.show = f.show /\ g.by = f.by /\ g.filter = f.filter /\ g.stale = f.stale /\ g.stage = f.stage
  /\ Tidy(f) => Tidy(g)
  /\ Parted(f) => Parted(g)

(* The keys of what is listed. *)
LEMMA ListingKeys ==
  ASSUME NEW f \in Folder
  PROVE  /\ Listing(f) \in SUBSET Files /\ AllKeys(f) = {x.key : x \in Listing(f)}
         /\ Keys(f.items) = {x.key : x \in ToSet(f.items)}
         /\ Keys(f.hidden) = {x.key : x \in ToSet(f.hidden)}
         /\ Parted(f) => Keys(f.items) \cap Keys(f.hidden) = {}
<1>1. f.items \in Seq(Files) /\ f.hidden \in Seq(Files)
  BY FolderFacts
<1>2. /\ Keys(f.items) = {x.key : x \in ToSet(f.items)} /\ ToSet(f.items) \in SUBSET Files
      /\ Keys(f.hidden) = {x.key : x \in ToSet(f.hidden)} /\ ToSet(f.hidden) \in SUBSET Files
  BY <1>1, KeysOf
<1>3. Parted(f) => Keys(f.items) \cap Keys(f.hidden) = {}
  BY <1>2 DEF Parted
<1> QED
  BY <1>2, <1>3 DEF Listing, AllKeys

(* A whole reading is listed as it is. *)
LEMMA FullLists ==
  ASSUME NEW f \in Folder, NEW files \in Seq(Files), NEW ticket \in Nat
  PROVE  LET g == UpdateFull(f, files, ticket) IN
         /\ Alters(f, g) /\ Parted(g) /\ g.ticket = ticket
         /\ Listing(g) = ToSet(files) /\ (Single(files) => Unique(g))
<1> DEFINE g == UpdateFull(f, files, ticket)
           s == Split(f, files)
<1>1. Relists(f, g) /\ g \in Folder
  BY FullFacts DEF Relists
<1>2. /\ g.show = f.show /\ g.by = f.by /\ g.filter = f.filter /\ g.stale = f.stale /\ g.stage = f.stage
      /\ g.items = s.items /\ g.hidden = s.hidden /\ g.ticket = ticket
  BY DEF UpdateFull, Revise, Folder
<1> HIDE DEF g
<1>3. /\ ToSet(s.items) = {x \in ToSet(files) : Visible(f, x.key)}
      /\ ToSet(s.hidden) = {x \in ToSet(files) : ~Visible(f, x.key)}
      /\ Single(files) => Single(s.items) /\ Single(s.hidden)
  BY SplitFiles
<1> HIDE DEF s
<1>4. Tidy(f) => Tidy(g)
  BY <1>1, <1>2, RelistsTidy
<1>5. \A n : Visible(g, n) = Visible(f, n)
  BY <1>2 DEF Visible
<1>6. Parted(g)
  BY <1>2, <1>3, <1>5 DEF Parted
<1>7. Listing(g) = ToSet(files) /\ (Single(files) => Unique(g))
  BY <1>2, <1>3 DEF Listing, Unique
<1> QED
  BY <1>1, <1>2, <1>4, <1>6, <1>7 DEF Alters, g

(* A part of one comes to what is listed; the first, which is empty, clears it. *)
LEMMA PartLists ==
  ASSUME NEW f \in Folder, NEW files \in Seq(Files), NEW ticket \in Nat
  PROVE  LET g == UpdatePart(f, files, ticket) IN
         /\ Alters(f, g)
         /\ files = <<>> => g.ticket = ticket /\ Listing(g) = {} /\ Unique(g)
         /\ files # <<>> /\ ticket # f.ticket => g = f
         /\ files # <<>> /\ ticket = f.ticket =>
              /\ g.ticket = f.ticket /\ Listing(g) = Listing(f) \cup ToSet(files)
              /\ Parted(f) /\ Unique(f) /\ Single(files) /\ Keys(files) \cap AllKeys(f) = {}
                   => Unique(g)
<1> DEFINE g == UpdatePart(f, files, ticket)
           s == Split(f, files)
<1>1. Relists(f, g) /\ g \in Folder
  BY PartFacts DEF Relists
<1>2. /\ g.show = f.show /\ g.by = f.by /\ g.filter = f.filter /\ g.stale = f.stale /\ g.stage = f.stage
      /\ files = <<>> => g.items = <<>> /\ g.hidden = <<>> /\ g.ticket = ticket
      /\ files # <<>> /\ ticket # f.ticket => g = f
      /\ files # <<>> /\ ticket = f.ticket =>
           g.items = f.items \o s.items /\ g.hidden = f.hidden \o s.hidden /\ g.ticket = f.ticket
  <2>1. CASE files = <<>>
    BY <2>1 DEF UpdatePart, Revise, Folder
  <2>2. CASE files # <<>> /\ ticket # f.ticket
    BY <2>2 DEF UpdatePart
  <2>3. CASE files # <<>> /\ ticket = f.ticket
    <3> DEFINE r == Revise(f, s.items # <<>>)
    <3>1. g = [r EXCEPT !.items = r.items \o s.items, !.hidden = r.hidden \o s.hidden]
      BY <2>3 DEF UpdatePart
    <3>2. /\ r.show = f.show /\ r.by = f.by /\ r.filter = f.filter /\ r.stale = f.stale
          /\ r.stage = f.stage /\ r.items = f.items /\ r.hidden = f.hidden /\ r.ticket = f.ticket
          /\ r \in Folder
      BY DEF Revise, Folder
    <3> HIDE DEF g, s, r
    <3> QED
      BY <2>3, <3>1, <3>2 DEF Folder
  <2> QED
    BY <2>1, <2>2, <2>3
<1> HIDE DEF g
<1>3. /\ ToSet(s.items) = {x \in ToSet(files) : Visible(f, x.key)}
      /\ ToSet(s.hidden) = {x \in ToSet(files) : ~Visible(f, x.key)}
      /\ Single(files) => Single(s.items) /\ Single(s.hidden)
      /\ s.items \in Seq(Files) /\ s.hidden \in Seq(Files)
  BY SplitFiles, SplitFacts
<1> HIDE DEF s
<1>4. Tidy(f) => Tidy(g)
  BY <1>1, <1>2, RelistsTidy
<1>5. \A n : Visible(g, n) = Visible(f, n)
  BY <1>2 DEF Visible
<1>6. CASE files = <<>>
  <2>1. ToSet(g.items) = {} /\ ToSet(g.hidden) = {} /\ Single(g.items) /\ Single(g.hidden)
    BY <1>2, <1>6 DEF ToSet, Single
  <2> QED
    BY <1>1, <1>2, <1>4, <1>6, <2>1 DEF Alters, Parted, Listing, Unique, g
<1>7. CASE files # <<>> /\ ticket # f.ticket
  BY <1>1, <1>2, <1>7 DEF Alters, g
<1>8. CASE files # <<>> /\ ticket = f.ticket
  <2>1. f.items \in Seq(Files) /\ f.hidden \in Seq(Files)
    BY FolderFacts
  <2> DEFINE c == f.items \o s.items
             d == f.hidden \o s.hidden
  <2>2. /\ ToSet(c) = ToSet(f.items) \cup ToSet(s.items)
        /\ Single(f.items) /\ Single(s.items) /\ Keys(f.items) \cap Keys(s.items) = {} => Single(c)
    BY <1>3, <2>1, ConcatFiles
  <2>3. /\ ToSet(d) = ToSet(f.hidden) \cup ToSet(s.hidden)
        /\ Single(f.hidden) /\ Single(s.hidden) /\ Keys(f.hidden) \cap Keys(s.hidden) = {} => Single(d)
    BY <1>3, <2>1, ConcatFiles
  <2>9. g.items = c /\ g.hidden = d
    BY <1>2, <1>8
  <2> HIDE DEF c, d
  <2>4. Keys(s.items) = {x.key : x \in ToSet(s.items)} /\ Keys(s.hidden) = {x.key : x \in ToSet(s.hidden)}
        /\ Keys(files) = {x.key : x \in ToSet(files)}
    BY <1>3, KeysOf
  <2>5. Keys(s.items) \subseteq Keys(files) /\ Keys(s.hidden) \subseteq Keys(files)
    BY <1>3, <2>4
  <2>6. Parted(f) => Parted(g)
    BY <1>3, <1>5, <2>2, <2>3, <2>9 DEF Parted
  <2>7. Listing(g) = Listing(f) \cup ToSet(files)
    BY <1>3, <2>2, <2>3, <2>9 DEF Listing
  <2>8. Unique(f) /\ Single(files) /\ Keys(files) \cap AllKeys(f) = {} => Unique(g)
    BY <1>3, <2>2, <2>3, <2>5, <2>9 DEF Unique, AllKeys
  <2> QED
    BY <1>1, <1>2, <1>4, <1>8, <2>6, <2>7, <2>8 DEF Alters, g
<1> QED
  BY <1>6, <1>7, <1>8

(* What is deleted is no longer listed. *)
LEMMA DeleteLists ==
  ASSUME NEW f \in Folder, NEW keys
  PROVE  LET g == UpdateDelete(f, keys) IN
         /\ Alters(f, g) /\ g.ticket = f.ticket
         /\ Parted(f) /\ Unique(f) =>
              Unique(g) /\ Listing(g) = {x \in Listing(f) : x.key \notin keys}
<1> DEFINE g == UpdateDelete(f, keys)
           i == Without(f.items, First(f.items, keys))
           h == Without(f.hidden, First(f.hidden, keys \ Keys(f.items)))
<1>1. Relists(f, g) /\ g \in Folder
  BY DeleteFacts DEF Relists
<1>2. /\ g.show = f.show /\ g.by = f.by /\ g.filter = f.filter /\ g.stale = f.stale /\ g.stage = f.stage
      /\ g.items = i /\ g.hidden = h /\ g.ticket = f.ticket
  BY DEF UpdateDelete, Revise, Folder
<1> HIDE DEF g
<1>3. f.items \in Seq(Files) /\ f.hidden \in Seq(Files)
  BY FolderFacts
<1>4. /\ ToSet(i) \subseteq ToSet(f.items)
      /\ Single(f.items) => Single(i) /\ ToSet(i) = {x \in ToSet(f.items) : x.key \notin keys}
  BY <1>3, WithoutFiles
<1>5. /\ ToSet(h) \subseteq ToSet(f.hidden)
      /\ Single(f.hidden) => Single(h) /\ ToSet(h) = {x \in ToSet(f.hidden) : x.key \notin keys \ Keys(f.items)}
  BY <1>3, WithoutFiles
<1> HIDE DEF i, h
<1>6. Tidy(f) => Tidy(g)
  BY <1>1, <1>2, RelistsTidy
<1>7. \A n : Visible(g, n) = Visible(f, n)
  BY <1>2 DEF Visible
<1>8. Parted(f) => Parted(g)
  BY <1>2, <1>4, <1>5, <1>7 DEF Parted
<1>9. ASSUME Parted(f), Unique(f)
      PROVE  Unique(g) /\ Listing(g) = {x \in Listing(f) : x.key \notin keys}
  <2>1. \A x \in ToSet(f.hidden) : x.key \notin Keys(f.items)
    BY <1>9, ListingKeys
  <2> QED
    BY <1>2, <1>4, <1>5, <1>9, <2>1 DEF Unique, Listing
<1> QED
  BY <1>1, <1>2, <1>6, <1>8, <1>9 DEF Alters, g

(* The files of L that have the key k. *)
At(L, k) == {x \in L : x.key = k}

(* An upsert of `files` bears upon k. *)
Touches(files, k) == \E n \in DOMAIN files : n = k \/ files[n].key = k

(* No two of them have the same key. *)
Distinct(files) == \A k, l \in DOMAIN files : files[k].key = files[l].key => k = l

(* What is upserted is listed as it is now, and only what is upserted changes. *)
LEMMA UpsertLists ==
  ASSUME NEW f \in Folder, NEW K \in SUBSET Names, NEW files \in [K -> Files]
  PROVE  LET g == UpdateUpsert(f, files) IN
         /\ Alters(f, g) /\ g.ticket = f.ticket
         /\ \A k \in K : files[k].key \in AllKeys(g)
         /\ Parted(f) /\ Unique(f) /\ Distinct(files) =>
              /\ Unique(g)
              /\ \A k : ~Touches(files, k) => At(Listing(g), k) = At(Listing(f), k)
              /\ (\A k \in K : files[k].key = k) => \A k \in K : At(Listing(g), k) = {files[k]}
<1> DEFINE moved == {files[k].key : k \in {k \in DOMAIN files : files[k].key # k}}
           g == UpdateDelete(f, moved)
           A == {k \in K : Visible(f, files[k].key)}
           B == {k \in K : ~Visible(f, files[k].key)}
           shown == [k \in A |-> files[k]]
           covered == [k \in B |-> files[k]]
           items == Existing(g.items, shown) \o Rest(g.items, shown)
           hidden == Existing(g.hidden, covered) \o Rest(g.hidden, covered)
           really == Existing(g.items, shown) # g.items \/ Rest(g.items, shown) # <<>>
           r == [Revise(g, really) EXCEPT !.items = items, !.hidden = hidden]
<1>1. /\ shown = RestrictDomain(files, LAMBDA k : Visible(f, files[k].key))
      /\ covered = RestrictDomain(files, LAMBDA k : ~Visible(f, files[k].key))
  BY DEF RestrictDomain, Restrict
<1>2. /\ A \in SUBSET Names /\ B \in SUBSET Names /\ A \cup B = K
      /\ shown \in [A -> Files] /\ covered \in [B -> Files]
      /\ \A k \in A : shown[k] = files[k] /\ Visible(f, files[k].key)
      /\ \A k \in B : covered[k] = files[k] /\ ~Visible(f, files[k].key)
  OBVIOUS
<1>3. /\ \A n : n \in moved => \E k \in K : files[k].key = n /\ k # n
      /\ \A k \in K : files[k].key # k => files[k].key \in moved
  OBVIOUS
<1>4. UpdateUpsert(f, files)
        = [Revise(g, really) EXCEPT
             !.items = items, !.hidden = Existing(@, covered) \o Rest(@, covered)]
  BY <1>1, Zenon DEF UpdateUpsert
<1> HIDE DEF moved, A, B, shown, covered
<1>5. /\ Alters(f, g) /\ g.ticket = f.ticket
      /\ Parted(f) /\ Unique(f) =>
           Unique(g) /\ Listing(g) = {x \in Listing(f) : x.key \notin moved}
  BY DeleteLists
<1>6. g \in Folder
  BY <1>5 DEF Alters
<1> HIDE DEF g
<1>7. g.items \in Seq(Files) /\ g.hidden \in Seq(Files) /\ g.ticket \in Nat
  BY <1>6, FolderFacts
<1>8. /\ items \in Seq(Files)
      /\ \A k \in A : shown[k].key \in Keys(items)
      /\ ~really => items = g.items
  BY <1>2, <1>7, UpsertedList
<1>22. Upserts(g.items, A, shown, items)
  BY <1>2, <1>7, UpsertFiles
<1>9. /\ hidden \in Seq(Files)
      /\ \A k \in B : covered[k].key \in Keys(hidden)
  BY <1>2, <1>7, UpsertedList
<1>23. Upserts(g.hidden, B, covered, hidden)
  BY <1>2, <1>7, UpsertFiles, SMTT(60)
<1>10. /\ Revise(g, really).hidden = g.hidden /\ Revise(g, really) \in Folder
  BY <1>6 DEF Revise, Folder
<1>11. UpdateUpsert(f, files) = r
  BY <1>4, <1>10, Zenon
<1>12. really \in BOOLEAN
  OBVIOUS
<1> HIDE DEF items, hidden, really
<1>24. Relists(g, r)
  BY <1>6, <1>8, <1>9, <1>12, RevisedFacts
<1>13. Relists(g, r) /\ r \in Folder
  BY <1>24 DEF Relists
<1>14. /\ r.items = items /\ r.hidden = hidden
       /\ r.show = g.show /\ r.by = g.by /\ r.filter = g.filter /\ r.stale = g.stale /\ r.stage = g.stage
       /\ r.ticket = g.ticket
  BY <1>6 DEF Folder, Revise
<1> HIDE DEF r
<1>15. AllKeys(r) = Keys(items) \cup Keys(hidden)
  BY <1>14 DEF AllKeys
<1>16. \A k \in K : files[k].key \in AllKeys(r)
  BY <1>2, <1>8, <1>9, <1>15
<1>17. \A n : Visible(r, n) = Visible(f, n) /\ Visible(g, n) = Visible(f, n)
  BY <1>5, <1>14 DEF Visible, Alters
<1>18. Tidy(f) => Tidy(r)
  BY <1>5, <1>6, <1>13, <1>14, RelistsTidy DEF Alters
<1>19. Parted(f) => Parted(r)
  <2>1. \A x \in ToSet(items) : x \in ToSet(g.items) \/ Visible(f, x.key)
    BY <1>2, <1>22 DEF Upserts
  <2>2. \A x \in ToSet(hidden) : x \in ToSet(g.hidden) \/ ~Visible(f, x.key)
    BY <1>2, <1>23 DEF Upserts
  <2> QED
    BY <1>5, <1>14, <1>17, <2>1, <2>2 DEF Parted, Alters
<1>20. Alters(f, r) /\ r.ticket = f.ticket
  BY <1>5, <1>13, <1>14, <1>18, <1>19 DEF Alters
<1>21. ASSUME Parted(f), Unique(f), Distinct(files)
       PROVE  /\ Unique(r)
              /\ \A k : ~Touches(files, k) => At(Listing(r), k) = At(Listing(f), k)
              /\ (\A k \in K : files[k].key = k) => \A k \in K : At(Listing(r), k) = {files[k]}
  <2>1. /\ Parted(g) /\ Unique(g) /\ Listing(g) = {x \in Listing(f) : x.key \notin moved}
        /\ Keys(g.items) = {x.key : x \in ToSet(g.items)} /\ Keys(g.hidden) = {x.key : x \in ToSet(g.hidden)}
    BY <1>5, <1>6, <1>21, ListingKeys DEF Alters
  <2>2. DOMAIN files = K
    OBVIOUS
  <2>3. \A k \in K : files[k].key \in Keys(g.items) \cup Keys(g.hidden) => files[k].key = k
    BY <1>3, <2>1 DEF Listing
  <2>4. /\ Single(items)
        /\ ToSet(items) = {x \in ToSet(g.items) : x.key \notin A} \cup {files[k] : k \in A}
    <3>1. \A k, l \in A : shown[k].key = shown[l].key => k = l
      BY <1>2, <1>21, <2>2 DEF Distinct
    <3>2. \A k \in A : shown[k].key \in Keys(g.items) => shown[k].key = k
      BY <1>2, <2>3
    <3>3. Single(g.items)
      BY <2>1 DEF Unique
    <3>4. {shown[k] : k \in A} = {files[k] : k \in A}
      BY <1>2
    <3> QED
      BY <1>22, <3>1, <3>2, <3>3, <3>4 DEF Upserts
  <2>5. /\ Single(hidden)
        /\ ToSet(hidden) = {x \in ToSet(g.hidden) : x.key \notin B} \cup {files[k] : k \in B}
    <3>1. \A k, l \in B : covered[k].key = covered[l].key => k = l
      BY <1>2, <1>21, <2>2 DEF Distinct
    <3>2. \A k \in B : covered[k].key \in Keys(g.hidden) => covered[k].key = k
      BY <1>2, <2>3
    <3>3. Single(g.hidden)
      BY <2>1 DEF Unique
    <3>4. {covered[k] : k \in B} = {files[k] : k \in B}
      BY <1>2
    <3> QED
      BY <1>23, <3>1, <3>2, <3>3, <3>4 DEF Upserts
  <2>6. Unique(r)
    BY <1>14, <2>4, <2>5 DEF Unique
  <2>7. ASSUME NEW k, ~Touches(files, k) PROVE At(Listing(r), k) = At(Listing(f), k)
    <3>1. k \notin K /\ \A l \in K : files[l].key # k
      BY <2>2, <2>7 DEF Touches
    <3>2. k \notin moved /\ k \notin A /\ k \notin B
      BY <1>2, <1>3, <3>1
    <3>3. \A x : x \in Listing(r) /\ x.key = k <=> x \in Listing(g) /\ x.key = k
      BY <1>2, <1>14, <2>4, <2>5, <3>1, <3>2 DEF Listing
    <3>4. \A x : x \in Listing(g) /\ x.key = k <=> x \in Listing(f) /\ x.key = k
      BY <2>1, <3>2
    <3> QED
      BY <3>3, <3>4 DEF At
  <2>8. ASSUME \A k \in K : files[k].key = k, NEW k \in K PROVE At(Listing(r), k) = {files[k]}
    <3>1. files[k] \in Listing(r) /\ files[k].key = k
      BY <1>2, <1>14, <2>4, <2>5, <2>8 DEF Listing
    <3>2. ASSUME NEW x \in Listing(r), x.key = k PROVE x = files[k]
      <4>1. CASE \E l \in K : x = files[l]
        BY <2>8, <3>2, <4>1
      <4>2. CASE x \in ToSet(g.items) /\ k \notin A
        BY <1>2, <1>17, <2>1, <2>8, <3>2, <4>2 DEF Parted
      <4>3. CASE x \in ToSet(g.hidden) /\ k \notin B
        BY <1>2, <1>17, <2>1, <2>8, <3>2, <4>3 DEF Parted
      <4>4. x \in ToSet(items) \/ x \in ToSet(hidden)
        BY <1>14 DEF Listing
      <4> QED
        BY <1>2, <2>4, <2>5, <3>2, <4>1, <4>2, <4>3, <4>4
    <3> QED
      BY <3>1, <3>2 DEF At
  <2> QED
    BY <2>6, <2>7, <2>8
<1> QED
  BY <1>11, <1>16, <1>20, <1>21

(* What is already listed where it is to be listed is not created. *)
LEMMA CreateListed ==
  ASSUME NEW f \in Folder, NEW file, Parted(f), file.key \in AllKeys(f)
  PROVE  UpdateCreate(f, file) = f
<1>1. Keys(f.items) = {x.key : x \in ToSet(f.items)} /\ Keys(f.hidden) = {x.key : x \in ToSet(f.hidden)}
  BY ListingKeys
<1>2. Visible(f, file.key) <=> file.key \in Keys(f.items)
  BY <1>1 DEF AllKeys, Parted
<1>3. ~Visible(f, file.key) => file.key \in Keys(f.hidden)
  BY <1>2 DEF AllKeys
<1> QED
  BY <1>2, <1>3 DEF UpdateCreate

(* As in Alters, but for the stage. *)
Changes(f, g) ==
  /\ g \in Folder /\ g.stale = f.stale
  /\ Parted(f) => Parted(g)
  /\ Tidy(f) => Tidy(g)

(* The trace is lost with the last file. *)
Traced(g) == IF g.items = <<>> /\ g.stage # "Loading" THEN [g EXCEPT !.trace = None] ELSE g

(* An update ends with the cursor, *)
LEMMA DoneSteady ==
  ASSUME NEW g \in Folder, NEW m \in Int
  PROVE  Steady(g, Arrow(Traced(g), m)) /\ Arrow(Traced(g), m) \in Folder
<1> DEFINE h == Traced(g)
<1>1. h \in Folder /\ Steady(g, h)
  BY DEF Folder, Steady, Traced
<1> HIDE DEF h
<1>2. Steady(h, Arrow(h, m)) /\ Arrow(h, m) \in Folder
  BY <1>1, ArrowSteady, ArrowFacts DEF Points
<1> QED
  BY <1>1, <1>2, SteadyTwice DEF h

(* and begins with the stage. *)
LEMMA StageSteady ==
  ASSUME NEW f \in Folder, NEW stage \in {"Loading", "Loaded"}
  PROVE  LET s == [f EXCEPT !.stage = stage] IN
         /\ s \in Folder /\ s.stage = stage /\ s.stale = f.stale /\ s.ticket = f.ticket
         /\ Listing(s) = Listing(f) /\ AllKeys(s) = AllKeys(f)
         /\ Parted(s) <=> Parted(f)
         /\ Unique(s) <=> Unique(f)
         /\ Tidy(s) <=> Tidy(f)
<1> DEFINE s == [f EXCEPT !.stage = stage]
<1>1. /\ s \in Folder /\ s.stage = stage /\ s.stale = f.stale /\ s.ticket = f.ticket
      /\ s.items = f.items /\ s.hidden = f.hidden /\ s.unsorted = f.unsorted
      /\ s.show = f.show /\ s.filter = f.filter /\ s.by = f.by
  BY DEF Folder
<1> HIDE DEF s
<1>2. \A n : Visible(s, n) = Visible(f, n)
  BY <1>1 DEF Visible
<1>3. Sorted(s, f.items) = Sorted(f, f.items)
  BY <1>1, SortedSame
<1> QED
  BY <1>1, <1>2, <1>3 DEF Listing, AllKeys, Parted, Unique, Tidy, s

(* Between the two the entries are altered. *)
LEMMA AlteredUpdate ==
  ASSUME NEW f \in Folder, NEW s, NEW g, NEW h,
         s.stale = f.stale, Parted(f) => Parted(s), Tidy(f) => Tidy(s), Alters(s, g),
         Steady(g, h), h \in Folder
  PROVE  /\ Changes(f, h)
         /\ Listing(h) = Listing(g) /\ (Unique(g) => Unique(h)) /\ (Parted(g) => Parted(h))
         /\ AllKeys(h) = AllKeys(g)
         /\ h.ticket = g.ticket /\ h.stage = s.stage
<1>2. \A n : Visible(h, n) = Visible(g, n)
  BY DEF Visible, Steady
<1>3. Sorted(h, g.items) = Sorted(g, g.items)
  BY SortedSame DEF Steady
<1>4. /\ Listing(h) = Listing(g) /\ (Unique(g) => Unique(h)) /\ (Parted(g) => Parted(h))
      /\ (Tidy(g) => Tidy(h)) /\ h.ticket = g.ticket /\ h.stage = g.stage /\ h.stale = g.stale
      /\ AllKeys(h) = AllKeys(g)
  BY <1>2, <1>3 DEF Steady, Listing, Unique, Parted, Tidy, AllKeys
<1> QED
  BY <1>4 DEF Changes, Alters

(* A reading in full, *)
LEMMA FullUpdates ==
  ASSUME NEW f \in Folder, InView(f), NEW e, e.op = "Full", e.files \in Seq(Files), e.ticket \in Nat
  PROVE  LET h == Update(f, e) IN
         /\ Changes(f, h) /\ Parted(h) /\ h.ticket = e.ticket /\ h.stage = "Loaded"
         /\ Listing(h) = ToSet(e.files) /\ (Single(e.files) => Unique(h))
<1> DEFINE s == [f EXCEPT !.stage = Stage(f, e)]
           g == UpdateFull(s, e.files, e.ticket)
<1>1. Stage(f, e) = "Loaded"
  BY SMTT(60) DEF Stage
<1>2. /\ s \in Folder /\ s.stage = "Loaded" /\ s.stale = f.stale
      /\ (Parted(f) => Parted(s)) /\ (Tidy(f) => Tidy(s))
  BY <1>1, StageSteady
<1>3. Update(f, e) = Arrow(Traced(g), -0)
  BY UpdateParts DEF Traced
<1> HIDE DEF s
<1>4. /\ Alters(s, g) /\ Parted(g) /\ g.ticket = e.ticket
      /\ Listing(g) = ToSet(e.files) /\ (Single(e.files) => Unique(g))
  BY <1>2, FullLists
<1> HIDE DEF g
<1>5. g \in Folder
  BY <1>4 DEF Alters
<1>6. Steady(g, Update(f, e)) /\ Update(f, e) \in Folder
  BY <1>3, <1>5, DoneSteady
<1> QED
  BY <1>2, <1>4, <1>6, AlteredUpdate

(* a part of one, *)
LEMMA PartUpdates ==
  ASSUME NEW f \in Folder, InView(f), NEW e, e.op = "Part", e.files \in Seq(Files), e.ticket \in Nat
  PROVE  LET h == Update(f, e) IN
         /\ Changes(f, h)
         /\ Late(f, e.ticket) => h = f
         /\ ~Late(f, e.ticket) /\ e.files = <<>> =>
              h.ticket = e.ticket /\ h.stage = "Loading" /\ Listing(h) = {} /\ Unique(h)
         /\ ~Late(f, e.ticket) /\ e.files # <<>> /\ e.ticket # f.ticket =>
              /\ h.ticket = f.ticket /\ h.stage = f.stage /\ Listing(h) = Listing(f)
              /\ Unique(f) => Unique(h)
         /\ ~Late(f, e.ticket) /\ e.files # <<>> /\ e.ticket = f.ticket =>
              /\ h.ticket = f.ticket /\ h.stage = "Loading"
              /\ Listing(h) = Listing(f) \cup ToSet(e.files)
              /\ Parted(f) /\ Unique(f) /\ Single(e.files) /\ Keys(e.files) \cap AllKeys(f) = {}
                   => Unique(h)
<1> DEFINE s == [f EXCEPT !.stage = Stage(f, e)]
           g == UpdatePart(s, e.files, e.ticket)
<1>1. /\ Stage(f, e) \in {"Loading", "Loaded"}
      /\ Stage(f, e) = IF e.files = <<>> \/ e.ticket = f.ticket THEN "Loading" ELSE f.stage
  BY FolderFacts, SMTT(60) DEF Stage
<1>2. /\ s \in Folder /\ s.stage = Stage(f, e) /\ s.stale = f.stale /\ s.ticket = f.ticket
      /\ Parted(s) <=> Parted(f)
      /\ (Unique(s) <=> Unique(f)) /\ (Tidy(f) => Tidy(s))
      /\ Listing(s) = Listing(f) /\ AllKeys(s) = AllKeys(f)
  BY <1>1, StageSteady, ZenonT(60)
<1>3. ~Late(f, e.ticket) => Update(f, e) = Arrow(Traced(g), -0)
  BY UpdateParts DEF Traced
<1>4. Late(f, e.ticket) => Update(f, e) = f
  BY UpdateParts
<1> HIDE DEF s
<1>5. /\ Alters(s, g)
      /\ e.files = <<>> => g.ticket = e.ticket /\ Listing(g) = {} /\ Unique(g)
      /\ e.files # <<>> /\ e.ticket # s.ticket => g = s
      /\ e.files # <<>> /\ e.ticket = s.ticket =>
           /\ g.ticket = s.ticket /\ Listing(g) = Listing(s) \cup ToSet(e.files)
           /\ Parted(s) /\ Unique(s) /\ Single(e.files) /\ Keys(e.files) \cap AllKeys(s) = {}
                => Unique(g)
  BY <1>2, PartLists
<1> HIDE DEF g
<1>6. CASE Late(f, e.ticket)
  BY <1>4, <1>6 DEF Changes
<1>7. CASE ~Late(f, e.ticket)
  <2>1. g \in Folder
    BY <1>5 DEF Alters
  <2>2. Steady(g, Update(f, e)) /\ Update(f, e) \in Folder
    BY <1>3, <1>7, <2>1, DoneSteady
  <2> DEFINE h == Update(f, e)
  <2>3. /\ Changes(f, h)
        /\ Listing(h) = Listing(g) /\ (Unique(g) => Unique(h))
        /\ h.ticket = g.ticket /\ h.stage = s.stage
    BY <1>2, <1>5, <2>2, AlteredUpdate
  <2> HIDE DEF h
  <2> QED
    BY <1>1, <1>2, <1>5, <1>7, <2>3 DEF h
<1> QED
  BY <1>6, <1>7

(* and the end of one, *)
LEMMA DoneUpdates ==
  ASSUME NEW f \in Folder, InView(f), NEW e, e.op = "Done"
  PROVE  LET h == Update(f, e) IN
         /\ Changes(f, h) /\ h.ticket = f.ticket /\ Listing(h) = Listing(f) /\ (Unique(f) => Unique(h))
         /\ h.stage = IF e.ticket = f.ticket THEN "Loaded" ELSE f.stage
<1> DEFINE s == [f EXCEPT !.stage = Stage(f, e)]
<1>1. /\ Stage(f, e) \in {"Loading", "Loaded"}
      /\ Stage(f, e) = IF e.ticket = f.ticket THEN "Loaded" ELSE f.stage
  BY FolderFacts DEF Stage
<1>2. /\ s \in Folder /\ s.stage = Stage(f, e) /\ s.stale = f.stale /\ s.ticket = f.ticket
      /\ (Parted(f) => Parted(s)) /\ (Tidy(f) => Tidy(s)) /\ (Unique(f) => Unique(s))
      /\ Listing(s) = Listing(f)
  BY <1>1, StageSteady
<1>3. ~Late(f, e.ticket) => Update(f, e) = Arrow(Traced(s), -0)
  BY UpdateParts, ZenonT(60) DEF Traced
<1>4. Late(f, e.ticket) => Update(f, e) = f
  BY UpdateParts
<1>5. e.ticket = f.ticket /\ Late(f, e.ticket) => f.stage = "Loaded"
  BY DEF Late
<1> HIDE DEF s
<1>6. CASE Late(f, e.ticket)
  <2>1. Update(f, e).stage = IF e.ticket = f.ticket THEN "Loaded" ELSE f.stage
    BY <1>4, <1>5, <1>6
  <2> QED
    BY <1>4, <1>6, <2>1 DEF Changes
<1>7. CASE ~Late(f, e.ticket)
  <2>1. Steady(s, Update(f, e)) /\ Update(f, e) \in Folder
    BY <1>2, <1>3, <1>7, DoneSteady
  <2>2. Alters(s, s)
    BY <1>2 DEF Alters
  <2> QED
    BY <1>1, <1>2, <2>1, <2>2, AlteredUpdate
<1> QED
  BY <1>6, <1>7

(* a deletion *)
LEMMA DeleteUpdates ==
  ASSUME NEW f \in Folder, InView(f), NEW e, e.op = "Delete"
  PROVE  LET h == Update(f, e) IN
         /\ Changes(f, h) /\ h.ticket = f.ticket /\ h.stage = f.stage
         /\ Parted(f) /\ Unique(f) =>
              Unique(h) /\ Listing(h) = {x \in Listing(f) : x.key \notin e.keys}
<1> DEFINE s == [f EXCEPT !.stage = Stage(f, e)]
           g == UpdateDelete(s, e.keys)
           n == Cardinality({i \in First(f.items, e.keys) : i <= f.cursor})
<1>1. Stage(f, e) = f.stage /\ Stage(f, e) \in {"Loading", "Loaded"}
  BY FolderFacts, SMTT(60) DEF Stage
<1>2. /\ s \in Folder /\ s.stage = f.stage /\ s.stale = f.stale /\ s.ticket = f.ticket
      /\ Parted(s) <=> Parted(f)
      /\ (Unique(f) => Unique(s)) /\ (Tidy(f) => Tidy(s)) /\ Listing(s) = Listing(f)
  BY <1>1, StageSteady
<1>3. Update(f, e) = Arrow(Traced(g), -n)
  BY UpdateParts DEF Traced
<1>4. n \in Nat
  BY AboveFacts
<1> HIDE DEF s, n
<1>5. /\ Alters(s, g) /\ g.ticket = s.ticket
      /\ Parted(s) /\ Unique(s) =>
           Unique(g) /\ Listing(g) = {x \in Listing(s) : x.key \notin e.keys}
  BY <1>2, DeleteLists
<1> HIDE DEF g
<1>6. g \in Folder /\ -n \in Int
  BY <1>4, <1>5 DEF Alters
<1>7. Steady(g, Update(f, e)) /\ Update(f, e) \in Folder
  BY <1>3, <1>6, DoneSteady
<1> DEFINE h == Update(f, e)
<1>8. /\ Changes(f, h)
      /\ Listing(h) = Listing(g) /\ (Unique(g) => Unique(h))
      /\ h.ticket = g.ticket /\ h.stage = s.stage
  BY <1>2, <1>5, <1>7, AlteredUpdate
<1> HIDE DEF h
<1> QED
  BY <1>2, <1>5, <1>8 DEF h

(* and an upsert. *)
LEMMA UpsertUpdates ==
  ASSUME NEW f \in Folder, InView(f), NEW e, e.op = "Upsert",
         NEW K \in SUBSET Names, e.files \in [K -> Files]
  PROVE  LET h == Update(f, e) IN
         /\ Changes(f, h) /\ h.ticket = f.ticket /\ h.stage = f.stage
         /\ \A k \in K : e.files[k].key \in AllKeys(h)
         /\ Parted(f) /\ Unique(f) /\ Distinct(e.files) =>
              /\ Unique(h)
              /\ \A k : ~Touches(e.files, k) => At(Listing(h), k) = At(Listing(f), k)
              /\ (\A k \in K : e.files[k].key = k) => \A k \in K : At(Listing(h), k) = {e.files[k]}
<1> DEFINE s == [f EXCEPT !.stage = Stage(f, e)]
           g == UpdateUpsert(s, e.files)
<1>1. Stage(f, e) = f.stage /\ Stage(f, e) \in {"Loading", "Loaded"}
  BY FolderFacts, SMTT(60) DEF Stage
<1>2. /\ s \in Folder /\ s.stage = f.stage /\ s.stale = f.stale /\ s.ticket = f.ticket
      /\ Parted(s) <=> Parted(f)
      /\ (Unique(f) => Unique(s)) /\ (Tidy(f) => Tidy(s)) /\ Listing(s) = Listing(f)
  BY <1>1, StageSteady
<1>3. Update(f, e) = Arrow(Traced(g), -0)
  BY UpdateParts DEF Traced
<1> HIDE DEF s
<1>5. /\ Alters(s, g) /\ g.ticket = s.ticket
      /\ \A k \in K : e.files[k].key \in AllKeys(g)
      /\ Parted(s) /\ Unique(s) /\ Distinct(e.files) =>
           /\ Unique(g)
           /\ \A k : ~Touches(e.files, k) => At(Listing(g), k) = At(Listing(s), k)
           /\ (\A k \in K : e.files[k].key = k) => \A k \in K : At(Listing(g), k) = {e.files[k]}
  BY <1>2, UpsertLists
<1> HIDE DEF g
<1>6. g \in Folder
  BY <1>5 DEF Alters
<1>7. Steady(g, Update(f, e)) /\ Update(f, e) \in Folder
  BY <1>3, <1>6, DoneSteady
<1> DEFINE h == Update(f, e)
<1>8. /\ Changes(f, h)
      /\ Listing(h) = Listing(g) /\ (Unique(g) => Unique(h)) /\ AllKeys(h) = AllKeys(g)
      /\ h.ticket = g.ticket /\ h.stage = s.stage
  BY <1>2, <1>5, <1>7, AlteredUpdate
<1> HIDE DEF h
<1> QED
  BY <1>2, <1>5, <1>8 DEF h

(* The stage does not change what is preferred, nor does what is listed. *)
LEMMA StaleSteady ==
  ASSUME NEW f \in Folder, NEW p
  PROVE  LET g == [f EXCEPT !.stale = FALSE] IN
         /\ g \in Folder /\ ~g.stale
         /\ g.stage = f.stage /\ g.ticket = f.ticket
         /\ Listing(g) = Listing(f) /\ AllKeys(g) = AllKeys(f)
         /\ (Parted(f) => Parted(g)) /\ (Unique(f) => Unique(g)) /\ (Tidy(f) => Tidy(g))
         /\ AsPreferred(f, p) => AsPreferred(g, p)
<1> DEFINE g == [f EXCEPT !.stale = FALSE]
<1>1. /\ g \in Folder /\ ~g.stale /\ g.stage = f.stage /\ g.ticket = f.ticket
      /\ g.items = f.items /\ g.hidden = f.hidden /\ g.unsorted = f.unsorted
      /\ g.show = f.show /\ g.filter = f.filter /\ g.by = f.by
  BY DEF Folder
<1> HIDE DEF g
<1>2. \A n : Visible(g, n) = Visible(f, n)
  BY <1>1 DEF Visible
<1>3. Sorted(g, f.items) = Sorted(f, f.items)
  BY <1>1, SortedSame
<1> QED
  BY <1>1, <1>2, <1>3 DEF Listing, AllKeys, Parted, Unique, Tidy, AsPreferred, g

(* A file that is listed is only looked for. *)
LEMMA RevealRearranges ==
  ASSUME NEW f \in Folder, InView(f), NEW k \in Names, PrefOK, Parted(f), k \in AllKeys(f)
  PROVE  LET g == RevealIn(f, k) IN
         Rearranges(f, g) /\ (AsPreferred(f, pref) => AsPreferred(g, pref))
<1> DEFINE g == HoverKey(f, k)
           e == [op |-> "Create", file |-> File(k, Dummy)]
           s == [g EXCEPT !.stage = Stage(g, e)]
           u == Update(g, e)
           v == Sort(u, Home, pref.by)
           h == IF Hovered(g) = k THEN g ELSE v
           w == HoverOn(h, k)
<1>1. Steady(f, g) /\ g \in Folder
  BY HoverKeySteady
<1>2. InView(g)
  BY HoverKeyFacts DEF Points
<1>3. RevealIn(f, k) = Calm(w)
  BY DEF RevealIn
<1> HIDE DEF g
<1>4. Rearranges(f, g) /\ AllKeys(g) = AllKeys(f) /\ Parted(g)
  BY <1>1, SteadyRearranges DEF Rearranges, Steady, AllKeys
<1>5. AsPreferred(f, pref) => AsPreferred(g, pref)
  BY <1>1, SteadyPreferred
<1>6. e.op = "Create" /\ e.file = File(k, Dummy) /\ e.file.key = k
  BY DEF File
<1>7. Stage(g, e) = g.stage /\ Stage(g, e) \in {"Loading", "Loaded"}
  BY <1>1, <1>6, FolderFacts DEF Stage
<1>8. s = g
  BY <1>1, <1>7 DEF Folder
<1>9. UpdateCreate(g, e.file) = g
  BY <1>1, <1>4, <1>6, CreateListed, SMTT(60)
<1>10. u = Arrow(Traced(UpdateCreate(s, e.file)), -0)
  BY <1>1, <1>2, <1>6, UpdateParts DEF Traced
<1>11. u = Arrow(Traced(g), -0)
  BY <1>8, <1>9, <1>10
<1> HIDE DEF e, s, u
<1>12. Steady(g, u) /\ u \in Folder
  BY <1>1, <1>11, DoneSteady
<1>13. Rearranges(g, u) /\ (AsPreferred(g, pref) => AsPreferred(u, pref))
  BY <1>12, SteadyRearranges, SteadyPreferred
<1>14. pref.by \in {"name", "time"} /\ Home \in Spots
  BY DEF PrefOK, Spots
<1>15. /\ Rearranges(u, v) /\ v.show = u.show
       /\ u.stage = "Loaded" => v.by = pref.by /\ ~v.unsorted
  BY <1>12, <1>14, SortRearranges
<1> HIDE DEF v
<1>16. v \in Folder /\ v.stage = u.stage
  BY <1>15 DEF Rearranges
<1>17. AsPreferred(u, pref) => AsPreferred(v, pref)
  BY <1>15, <1>16 DEF AsPreferred
<1>18. /\ h \in Folder /\ Rearranges(g, h)
       /\ AsPreferred(g, pref) => AsPreferred(h, pref)
  <2>1. CASE Hovered(g) = k
    <3>1. Rearranges(g, g)
      BY <1>1 DEF Rearranges
    <3> QED
      BY <1>1, <2>1, <3>1
  <2>2. CASE Hovered(g) # k
    <3>1. Rearranges(g, v)
      BY <1>13, <1>15, RearrangesTwice
    <3> QED
      BY <1>13, <1>16, <1>17, <2>2, <3>1
  <2> QED
    BY <2>1, <2>2
<1> HIDE DEF h
<1>19. Steady(h, w) /\ w \in Folder
  BY <1>18, HoverOnSteady
<1> HIDE DEF w
<1>20. Steady(w, Calm(w)) /\ Calm(w) \in Folder
  BY <1>19, CalmSteady
<1>21. Rearranges(h, Calm(w)) /\ (AsPreferred(h, pref) => AsPreferred(Calm(w), pref))
  BY <1>18, <1>19, <1>20, SteadyTwice, SteadyRearranges, SteadyPreferred
<1> QED
  BY <1>3, <1>4, <1>5, <1>18, <1>21, RearrangesTwice

(* A handler ends with f as the folder, and may ask for it to be read. *)
Lands(f) ==
  \/ home' = f /\ UNCHANGED <<reads, reading, torn>>
  \/ /\ f.stale \/ (f.stage = "Loaded" /\ reading = Idle)
     /\ reads' = reads + 1
     /\ reading' = Begin(issued + 1, FALSE) /\ torn' = FALSE
     /\ home' = [f EXCEPT !.stale = FALSE]

(* A request lands. *)
LEMMA AskLands ==
  ASSUME NEW f, Ask(f)
  PROVE  Lands(f)
BY DEF Ask, Lands

(* The tab has the files it had. *)
Kept ==
  \E f : /\ Rearranges(home, f) /\ Lands(f)
         /\ AsPreferred(home, pref) => AsPreferred(f, pref')

(* The tab goes to some place. *)
LEMMA GoneTo ==
  ASSUME StackInv, Go
  PROVE  \E to \in Spots : \E b : Cd(home, to, b)
<1>1. stack \in Seq(Spots) /\ DOMAIN stack = 1..Len(stack)
  BY DEF StackInv
<1>2. CASE Hovered(home) \in Dirs /\ Cd(home, Hovered(home), [stack |-> stack, pos |-> pos])
  BY <1>2 DEF Spots
<1>3. CASE Cd(home, Home, [stack |-> stack, pos |-> pos])
  BY <1>3 DEF Spots
<1>4. CASE \E p \in {pos - 1, pos + 1} \cap DOMAIN stack : Cd(home, stack[p], [stack |-> stack, pos |-> p])
  <2>1. PICK p \in 1..Len(stack) : Cd(home, stack[p], [stack |-> stack, pos |-> p])
    BY <1>1, <1>4
  <2>2. stack[p] \in Spots
    BY <1>1
  <2> QED
    BY <2>1, <2>2
<1> QED
  BY <1>2, <1>3, <1>4 DEF Go

(* Whatever the user does keeps them, *)
LEMMA UserKeeps ==
  ASSUME HomeOK, StackInv, User
  PROVE  Kept /\ UNCHANGED <<world, queue>>
<1>1. home \in Folder /\ InView(home) /\ cwd \in Spots /\ PrefOK /\ Home \in Spots
  BY DEF HomeOK, Spots
<1>2. UNCHANGED <<world, queue>>
  BY DEF User, Move, SortBy, ToggleHidden, FilterDo, Select, Go, Focus, Act
<1>3. ASSUME NEW g \in Folder, Rearranges(home, g), home' = g, UNCHANGED <<load, torn>>,
             AsPreferred(home, pref) => AsPreferred(g, pref')
      PROVE  Kept
  BY <1>3 DEF Kept, Lands, load
<1>4. ASSUME NEW g \in Folder, Steady(home, g), home' = g, UNCHANGED <<load, torn, pref>>
      PROVE  Kept
  BY <1>1, <1>3, <1>4, SteadyRearranges, SteadyPreferred
<1>5. ASSUME NEW n \in {-1, 1}, Move(n) PROVE Kept
  <2> DEFINE f == ArrowAround(home, n)
             r == Retrace(f)
  <2>1. /\ home' = Hover(r, Home) /\ UNCHANGED <<load, torn, pref>> /\ home.items # <<>>
    BY <1>5 DEF Move
  <2>2. Steady(home, f)
    BY <1>1, ArrowAroundSteady
  <2>3. f \in Folder
    <3> DEFINE new == (home.cursor + n) % Len(home.items)
    <3>1. home.cursor \in Nat /\ home.items \in Seq(Files)
      BY <1>1, FolderFacts
    <3>2. Len(home.items) \in Nat /\ Len(home.items) > 0
      BY <2>1, <3>1
    <3>3. home.cursor + n \in Int
      BY <3>1
    <3>4. new \in Nat /\ new < Len(home.items)
      BY <3>2, <3>3
    <3>5. f = ArrowTo(home, new)
      BY DEF ArrowAround
    <3> HIDE DEF new, f
    <3>6. Points(home, f)
      BY <1>1, <3>4, <3>5, ArrowToFacts
    <3> QED
      BY <3>6 DEF Points
  <2> HIDE DEF f
  <2>4. Steady(f, r)
    BY <2>3, RetraceSteady
  <2>5. r \in Folder
    BY <2>3, HoveredFacts, FolderFacts DEF Retrace, Folder
  <2> HIDE DEF r
  <2>6. Steady(r, Hover(r, Home)) /\ Hover(r, Home) \in Folder
    BY <1>1, <2>5, HoverSteady
  <2> QED
    BY <1>4, <2>1, <2>2, <2>4, <2>6, SteadyTwice
<1>6. ASSUME ToggleHidden PROVE Kept
  <2> DEFINE g == Hide(home, cwd, pref'.show)
  <2>1. /\ pref' = [pref EXCEPT !.show = ~pref.show]
        /\ home' = Calm(g) /\ UNCHANGED <<load, torn>>
    BY <1>6 DEF ToggleHidden
  <2>2. pref'.show \in BOOLEAN /\ pref'.by = pref.by
    BY <1>1, <2>1 DEF PrefOK
  <2>3. /\ Rearranges(home, g) /\ g.by = home.by
        /\ home.stage = "Loaded" => g.show = pref'.show /\ ~g.unsorted
    BY <1>1, <2>2, HideRearranges
  <2> HIDE DEF g
  <2>4. g \in Folder /\ g.stage = home.stage
    BY <2>3 DEF Rearranges
  <2>5. AsPreferred(home, pref) => AsPreferred(g, pref')
    BY <2>2, <2>3, <2>4 DEF AsPreferred
  <2>6. Steady(g, Calm(g)) /\ Calm(g) \in Folder
    BY <2>4, CalmSteady
  <2>7. Rearranges(home, Calm(g)) /\ (AsPreferred(g, pref') => AsPreferred(Calm(g), pref'))
    BY <2>3, <2>6, SteadyRearranges, SteadyPreferred, RearrangesTwice
  <2> QED
    BY <1>3, <2>1, <2>5, <2>6, <2>7
<1>7. ASSUME NEW by \in {"name", "time"}, SortBy(by) PROVE Kept
  <2> DEFINE g == Sort(home, cwd, by)
  <2>1. /\ pref' = [pref EXCEPT !.by = by] /\ home' = Calm(g) /\ UNCHANGED <<load, torn>>
    BY <1>7 DEF SortBy
  <2>2. pref'.by = by /\ pref'.show = pref.show
    BY <1>1, <2>1 DEF PrefOK
  <2>3. /\ Rearranges(home, g) /\ g.show = home.show
        /\ home.stage = "Loaded" => g.by = by /\ ~g.unsorted
    BY <1>1, SortRearranges
  <2> HIDE DEF g
  <2>4. g \in Folder /\ g.stage = home.stage
    BY <2>3 DEF Rearranges
  <2>5. AsPreferred(home, pref) => AsPreferred(g, pref')
    BY <2>2, <2>3, <2>4 DEF AsPreferred
  <2>6. Steady(g, Calm(g)) /\ Calm(g) \in Folder
    BY <2>4, CalmSteady
  <2>7. Rearranges(home, Calm(g)) /\ (AsPreferred(g, pref') => AsPreferred(Calm(g), pref'))
    BY <2>3, <2>6, SteadyRearranges, SteadyPreferred, RearrangesTwice
  <2> QED
    BY <1>3, <2>1, <2>5, <2>6, <2>7
<1>8. ASSUME FilterDo PROVE Kept
  <2> DEFINE on == ~home.filter
             g == SetFilter(home, on)
             k == Hovered(home)
  <2>1. UNCHANGED <<load, torn, pref>>
    BY <1>8 DEF FilterDo
  <2>2. \/ home' = g
        \/ home' = Hover(g, Home)
        \/ k # None /\ home' = HoverOn(g, k)
    BY <1>8 DEF FilterDo
  <2>3. Rearranges(home, g) /\ g.show = home.show /\ g.by = home.by /\ g.unsorted = home.unsorted
    BY <1>1, FilterRearranges
  <2> HIDE DEF g
  <2>4. g \in Folder /\ g.stage = home.stage
    BY <2>3 DEF Rearranges
  <2>5. AsPreferred(home, pref) => AsPreferred(g, pref)
    BY <2>3, <2>4 DEF AsPreferred
  <2>6. k # None => k \in Names
    BY <1>1, HoveredFacts, FolderFacts
  <2> HIDE DEF k
  <2>7. Steady(g, home') /\ home' \in Folder
    <3>1. Steady(g, g)
      BY DEF Steady
    <3>2. Steady(g, Hover(g, Home)) /\ Hover(g, Home) \in Folder
      BY <1>1, <2>4, HoverSteady
    <3>3. k # None => Steady(g, HoverOn(g, k)) /\ HoverOn(g, k) \in Folder
      BY <2>4, <2>6, HoverOnSteady
    <3> QED
      BY <2>2, <2>4, <3>1, <3>2, <3>3
  <2>8. Rearranges(home, home') /\ (AsPreferred(g, pref) => AsPreferred(home', pref))
    BY <2>3, <2>7, SteadyRearranges, SteadyPreferred, RearrangesTwice
  <2> QED
    BY <1>3, <2>1, <2>5, <2>7, <2>8
<1>9. ASSUME Select PROVE Kept
  <2>1. home' = home /\ UNCHANGED <<load, torn, pref>> /\ Steady(home, home)
    BY <1>9 DEF Select, Steady
  <2> QED
    BY <1>1, <1>4, <2>1
<1>10. ASSUME Go PROVE Kept
  <2>1. pref' = pref
    BY <1>10 DEF Go
  <2>5. PICK to \in Spots : \E b : Cd(home, to, b)
    BY <1>10, GoneTo
  <2>2. PICK b : Cd(home, to, b)
    BY <2>5
  <2> DEFINE g == Calm(Hover(Prefer(home, to), to))
  <2>3. Rearranges(home, g) /\ AsPreferred(g, pref)
    BY <1>1, GoneRearranges
  <2>4. Lands(g)
    BY <2>2, AskLands DEF Cd
  <2> HIDE DEF g
  <2> QED
    BY <2>1, <2>3, <2>4 DEF Kept
<1>11. ASSUME Focus PROVE Kept
  <2>1. Lands(home) /\ pref' = pref
    BY <1>11, AskLands DEF Focus
  <2>2. Rearranges(home, home)
    BY <1>1 DEF Rearranges
  <2> QED
    BY <2>1, <2>2 DEF Kept
<1> QED
  BY <1>2, <1>5, <1>6, <1>7, <1>8, <1>9, <1>10, <1>11 DEF User

(* What is queued, and how the folder follows the disk. *)

(* None of q is in D. *)
NoneOf(q, D) == \A i \in 1..Len(q) : q[i] \notin D

(* The last of q that is in D, if there is one, is in R. *)
LastOf(q, D, R) ==
  \A i \in 1..Len(q) : q[i] \in D /\ (\A j \in i+1..Len(q) : q[j] \notin D) => q[i] \in R

(* More comes into a queue, *)
LEMMA Queued ==
  ASSUME NEW S, NEW q \in Seq(S), NEW m \in Seq(S)
  PROVE  /\ q \o m \in Seq(S) /\ Len(q \o m) = Len(q) + Len(m) /\ Len(q) \in Nat /\ Len(m) \in Nat
         /\ \A i \in 1..Len(q) : (q \o m)[i] = q[i] /\ q[i] \in S
         /\ \A i \in 1..Len(m) : (q \o m)[Len(q) + i] = m[i] /\ m[i] \in S
         /\ \A i \in 1..Len(q \o m) :
              i \in 1..Len(q) \/ (i - Len(q) \in 1..Len(m) /\ (q \o m)[i] = m[i - Len(q)])
<1>1. q \o m \in Seq(S) /\ Len(q \o m) = Len(q) + Len(m) /\ Len(q) \in Nat /\ Len(m) \in Nat
  BY SMTT(60)
<1>2. \A i \in 1..Len(q) : (q \o m)[i] = q[i] /\ q[i] \in S
  BY SMTT(60)
<1>3. \A i \in 1..Len(m) : (q \o m)[Len(q) + i] = m[i] /\ m[i] \in S
  BY SMTT(60)
<1>4. ASSUME NEW i \in 1..Len(q \o m), i \notin 1..Len(q)
      PROVE  i - Len(q) \in 1..Len(m) /\ (q \o m)[i] = m[i - Len(q)]
  <2>1. i - Len(q) \in 1..Len(m)
    BY <1>1, <1>4, SMTT(60)
  <2>2. (q \o m)[Len(q) + (i - Len(q))] = m[i - Len(q)]
    BY <1>3, <2>1
  <2>3. Len(q) + (i - Len(q)) = i
    BY <1>1, SMTT(60)
  <2> QED
    BY <2>1, <2>2, <2>3
<1> QED
  BY <1>1, <1>2, <1>3, <1>4

(* and one is taken from it. *)
LEMMA Taken ==
  ASSUME NEW S, NEW q \in Seq(S), q # <<>>
  PROVE  /\ Tail(q) \in Seq(S) /\ Len(Tail(q)) = Len(q) - 1 /\ Len(q) \in Nat \ {0}
         /\ \A i \in 1..Len(q)-1 : Tail(q)[i] = q[i + 1]
         /\ Head(q) = q[1] /\ 1 \in 1..Len(q) /\ Head(q) \in S
<1>1. Len(q) \in Nat \ {0}
  BY SMTT(60)
<1>2. Tail(q) \in Seq(S) /\ Len(Tail(q)) = Len(q) - 1
  BY SMTT(60)
<1>3. \A i \in 1..Len(q)-1 : Tail(q)[i] = q[i + 1]
  BY <1>1, <1>2, SMTT(60)
<1>4. Head(q) = q[1] /\ 1 \in 1..Len(q) /\ Head(q) \in S
  BY <1>1, SMTT(60)
<1> QED
  BY <1>1, <1>2, <1>3, <1>4

(* What comes last matters. *)
LEMMA LastQueued ==
  ASSUME NEW S, NEW q \in Seq(S), NEW m \in Seq(S), NEW D, NEW R,
         \A i \in 1..Len(m) : m[i] \in D => m[i] \in R,
         NoneOf(m, D) => LastOf(q, D, R)
  PROVE  LastOf(q \o m, D, R)
<1>1. SUFFICES ASSUME NEW i \in 1..Len(q \o m), (q \o m)[i] \in D,
                      \A j \in i+1..Len(q \o m) : (q \o m)[j] \notin D
               PROVE  (q \o m)[i] \in R
  BY DEF LastOf
<1>2. CASE i - Len(q) \in 1..Len(m) /\ (q \o m)[i] = m[i - Len(q)]
  BY <1>1, <1>2
<1>3. CASE i \in 1..Len(q)
  <2>1. ASSUME NEW j \in 1..Len(m)
        PROVE  m[j] \notin D
    <3>1. Len(q) + j \in i+1..Len(q \o m)
      BY <1>3, Queued, SMTT(60)
    <3>2. (q \o m)[Len(q) + j] = m[j]
      BY Queued
    <3> QED
      BY <1>1, <3>1, <3>2
  <2>2. LastOf(q, D, R)
    BY <2>1 DEF NoneOf
  <2>3. (q \o m)[i] = q[i]
    BY <1>3, Queued
  <2>4. ASSUME NEW j \in i+1..Len(q)
        PROVE  q[j] \notin D
    <3>1. j \in 1..Len(q) /\ j \in i+1..Len(q \o m)
      BY <1>3, Queued, SMTT(60)
    <3>2. (q \o m)[j] = q[j]
      BY <3>1, Queued
    <3> QED
      BY <1>1, <3>1, <3>2
  <2> QED
    BY <1>1, <1>3, <2>2, <2>3, <2>4 DEF LastOf
<1> QED
  BY <1>2, <1>3, Queued
(* None is in two sequences if none is in either. *)
LEMMA NoneQueued ==
  ASSUME NEW S, NEW q \in Seq(S), NEW m \in Seq(S), NEW D
  PROVE  NoneOf(q \o m, D) <=> NoneOf(q, D) /\ NoneOf(m, D)
<1>1. ASSUME NoneOf(q \o m, D)
      PROVE  NoneOf(q, D) /\ NoneOf(m, D)
  <2>1. \A i \in 1..Len(q) : i \in 1..Len(q \o m) /\ (q \o m)[i] = q[i]
    BY Queued, SMTT(60)
  <2>2. \A i \in 1..Len(m) : Len(q) + i \in 1..Len(q \o m)
    BY Queued, SMTT(60)
  <2>3. \A i \in 1..Len(m) : (q \o m)[Len(q) + i] = m[i]
    BY Queued
  <2> QED
    BY <1>1, <2>1, <2>2, <2>3 DEF NoneOf
<1>2. ASSUME NoneOf(q, D), NoneOf(m, D), NEW i \in 1..Len(q \o m)
      PROVE  (q \o m)[i] \notin D
  <2>1. i \in 1..Len(q) \/ (i - Len(q) \in 1..Len(m) /\ (q \o m)[i] = m[i - Len(q)])
    BY Queued
  <2>2. \A j \in 1..Len(q) : (q \o m)[j] = q[j]
    BY Queued
  <2> QED
    BY <1>2, <2>1, <2>2 DEF NoneOf
<1> QED
  BY <1>1, <1>2 DEF NoneOf

(* What is taken is the last if there is no other. *)
LEMMA LastTaken ==
  ASSUME NEW S, NEW q \in Seq(S), q # <<>>, NEW D, NEW R, LastOf(q, D, R)
  PROVE  /\ LastOf(Tail(q), D, R)
         /\ NoneOf(Tail(q), D) => (Head(q) \in D => Head(q) \in R) /\ (Head(q) \notin D => NoneOf(q, D))
<1>1. \A i \in 1..Len(q)-1 : i + 1 \in 1..Len(q) /\ Tail(q)[i] = q[i + 1]
  BY Taken, SMTT(60)
<1>2. Len(Tail(q)) = Len(q) - 1 /\ Len(q) \in Nat \ {0} /\ Head(q) = q[1] /\ 1 \in 1..Len(q)
  BY Taken
<1>3. ASSUME NEW i \in 1..Len(Tail(q)), Tail(q)[i] \in D,
             \A j \in i+1..Len(Tail(q)) : Tail(q)[j] \notin D
      PROVE  Tail(q)[i] \in R
  <2>1. i \in 1..Len(q)-1
    BY <1>2
  <2>2. ASSUME NEW j \in i+1+1..Len(q)
        PROVE  q[j] \notin D
    <3>1. j - 1 \in i+1..Len(Tail(q)) /\ j - 1 \in 1..Len(q)-1 /\ (j - 1) + 1 = j
      BY <1>2, <2>1, SMTT(60)
    <3> QED
      BY <1>1, <1>3, <3>1
  <2> QED
    BY <1>1, <1>3, <2>1, <2>2 DEF LastOf
<1>4. ASSUME NoneOf(Tail(q), D)
      PROVE  \A j \in 1+1..Len(q) : q[j] \notin D
  <2>1. ASSUME NEW j \in 1+1..Len(q)
        PROVE  q[j] \notin D
    <3>1. j - 1 \in 1..Len(Tail(q)) /\ j - 1 \in 1..Len(q)-1 /\ (j - 1) + 1 = j
      BY <1>2, SMTT(60)
    <3> QED
      BY <1>1, <1>4, <3>1 DEF NoneOf
  <2> QED
    BY <2>1
<1>5. ASSUME NoneOf(Tail(q), D), Head(q) \in D
      PROVE  Head(q) \in R
  BY <1>2, <1>4, <1>5 DEF LastOf
<1>6. ASSUME NoneOf(Tail(q), D), Head(q) \notin D, NEW i \in 1..Len(q)
      PROVE  q[i] \notin D
  <2>1. i = 1 \/ i \in 1+1..Len(q)
    BY <1>2, SMTT(60)
  <2> QED
    BY <1>2, <1>4, <1>6, <2>1
<1> QED
  BY <1>3, <1>5, <1>6 DEF LastOf, NoneOf

(* What is to be listed, *)
Present == {n \in Names : disk[n] # Absent}
OnDisk  == {File(n, disk[n]) : n \in Present}

(* for each name. *)
Here(k) == At(OnDisk, k)

(* The events that are readings, whole ones, *)
LoadEvents  == {e \in AnyEvent : e.op \in Loads}
WholeEvents == {e \in AnyEvent : e.op = "Full" /\ Single(e.files)}

(* those that bear upon k, *)
Disturbing(k) ==
  {e \in AnyEvent : \/ e.op \in Loads
                    \/ e.op = "Delete" /\ k \in e.keys
                    \/ e.op = "Upsert" /\ Touches(e.files, k)}

(* and that bring what is right for it, H. *)
Righting(k, H) ==
  {e \in AnyEvent : \/ e.op = "Full" /\ At(ToSet(e.files), k) = H
                    \/ e.op = "Delete" /\ H = {}
                    \/ /\ e.op = "Upsert" /\ k \in DOMAIN e.files /\ H = {e.files[k]}
                       /\ \A n \in DOMAIN e.files : e.files[n].key = n}

(* Where L is listed, q will bring what is right for k. *)
Follows(q, L, k, H) ==
  /\ NoneOf(q, Disturbing(k)) => At(L, k) = H
  /\ LastOf(q, Disturbing(k), Righting(k, H))

(* It still will if more comes that is right. *)
LEMMA FollowsQueued ==
  ASSUME NEW q \in Seq(AnyEvent), NEW m \in Seq(AnyEvent), NEW L, NEW k, NEW H,
         \A i \in 1..Len(m) : m[i] \in Disturbing(k) => m[i] \in Righting(k, H),
         NoneOf(m, Disturbing(k)) => Follows(q, L, k, H)
  PROVE  Follows(q \o m, L, k, H)
<1>1. LastOf(q \o m, Disturbing(k), Righting(k, H))
  <2> DEFINE D == Disturbing(k)
             R == Righting(k, H)
  <2>1. /\ \A i \in 1..Len(m) : m[i] \in D => m[i] \in R
        /\ NoneOf(m, D) => LastOf(q, D, R)
    BY DEF Follows
  <2> HIDE DEF D, R
  <2>2. LastOf(q \o m, D, R)
    BY <2>1, LastQueued
  <2> QED
    BY <2>2 DEF D, R
<1>2. NoneOf(q \o m, Disturbing(k)) => NoneOf(q, Disturbing(k)) /\ NoneOf(m, Disturbing(k))
  BY NoneQueued
<1> QED
  BY <1>1, <1>2 DEF Follows

(* What an event makes of f. *)
Brings(e, f, g) ==
  /\ e \in LoadEvents /\ e.op = "Full" => Listing(g) = ToSet(e.files) /\ (Single(e.files) => Unique(g))
  /\ e \notin LoadEvents /\ Unique(f) =>
       /\ Unique(g)
       /\ \A k \in Names : e \notin Disturbing(k) => At(Listing(g), k) = At(Listing(f), k)
       /\ \A k \in Names : \A H : e \in Disturbing(k) /\ e \in Righting(k, H) => At(Listing(g), k) = H

(* A last whole reading, if one is queued. *)
Reloads(q, f) == (NoneOf(q, LoadEvents) => Unique(f)) /\ LastOf(q, LoadEvents, WholeEvents)

(* It remains so when an event is taken and brought. *)
LEMMA ReloadsTaken ==
  ASSUME NEW q \in Seq(AnyEvent), q # <<>>, NEW f, NEW g, Brings(Head(q), f, g), Reloads(q, f)
  PROVE  Reloads(Tail(q), g)
<1>1. /\ LastOf(Tail(q), LoadEvents, WholeEvents)
      /\ NoneOf(Tail(q), LoadEvents) =>
           (Head(q) \in LoadEvents => Head(q) \in WholeEvents) /\ (Head(q) \notin LoadEvents => NoneOf(q, LoadEvents))
  BY LastTaken DEF Reloads
<1>2. ASSUME NoneOf(Tail(q), LoadEvents)
      PROVE  Unique(g)
  <2>1. CASE Head(q) \in LoadEvents
    <3>1. Head(q).op = "Full" /\ Single(Head(q).files)
      BY <1>1, <1>2, <2>1 DEF WholeEvents
    <3> QED
      BY <2>1, <3>1 DEF Brings
  <2>2. CASE Head(q) \notin LoadEvents
    <3>1. Unique(f)
      BY <1>1, <1>2, <2>2 DEF Reloads
    <3> QED
      BY <2>2, <3>1 DEF Brings
  <2> QED
    BY <2>1, <2>2
<1> QED
  BY <1>1, <1>2 DEF Reloads

(* What is taken from the queue reaches the folder. *)
LEMMA FollowsTaken ==
  ASSUME NEW q \in Seq(AnyEvent), q # <<>>, NEW f, NEW g, Brings(Head(q), f, g), Reloads(q, f),
         NEW k \in Names, NEW H, Follows(q, Listing(f), k, H)
  PROVE  Follows(Tail(q), Listing(g), k, H)
<1> DEFINE D == Disturbing(k)
           R == Righting(k, H)
<1>1. /\ LastOf(Tail(q), D, R)
      /\ NoneOf(Tail(q), D) => (Head(q) \in D => Head(q) \in R) /\ (Head(q) \notin D => NoneOf(q, D))
  <2>1. LastOf(q, D, R)
    BY DEF Follows
  <2> HIDE DEF D, R
  <2> QED
    BY <2>1, LastTaken
<1>2. LoadEvents \subseteq D
  BY DEF LoadEvents, Disturbing
<1>4. ASSUME NoneOf(Tail(q), D)
      PROVE  At(Listing(g), k) = H
  <2>1. CASE Head(q) \in LoadEvents
    <3>1. Head(q) \in R
      BY <1>1, <1>2, <1>4, <2>1
    <3>2. Head(q).op = "Full" /\ At(ToSet(Head(q).files), k) = H
      BY <2>1, <3>1 DEF Righting, LoadEvents, Loads
    <3> QED
      BY <2>1, <3>2 DEF Brings
  <2>2. CASE Head(q) \notin LoadEvents
    <3>1. NoneOf(Tail(q), LoadEvents)
      BY <1>2, <1>4 DEF NoneOf
    <3>2. NoneOf(q, LoadEvents)
      BY <2>2, <3>1, LastTaken DEF Reloads
    <3>3. Unique(f)
      BY <3>2 DEF Reloads
    <3>4. CASE Head(q) \in D
      BY <1>1, <1>4, <2>2, <3>3, <3>4 DEF Brings
    <3>5. CASE Head(q) \notin D
      <4>1. At(Listing(g), k) = At(Listing(f), k)
        BY <2>2, <3>3, <3>5 DEF Brings
      <4>2. At(Listing(f), k) = H
        BY <1>1, <1>4, <3>5 DEF Follows
      <4> QED
        BY <4>1, <4>2
    <3> QED
      BY <3>4, <3>5
  <2> QED
    BY <2>1, <2>2
<1> QED
  BY <1>1, <1>4 DEF Follows

(* The cursor and the order do not matter for what an event brings. *)
LEMMA BringsSettled ==
  ASSUME NEW e, NEW f, NEW g, Brings(e, f, g), NEW h, Rearranges(g, h), Parted(g)
  PROVE  Brings(e, f, h)
<1>1. Listing(h) = Listing(g) /\ (Unique(g) => Unique(h))
  BY DEF Rearranges
<1> QED
  BY <1>1 DEF Brings

(* A deletion brings what is right, *)
LEMMA DeleteBrings ==
  ASSUME NEW f \in Folder, InView(f), Parted(f), NEW e \in AnyEvent, e.op = "Delete"
  PROVE  Brings(e, f, Update(f, e))
<1> DEFINE h == Update(f, e)
<1>1. Unique(f) => Unique(h) /\ Listing(h) = {x \in Listing(f) : x.key \notin e.keys}
  BY DeleteUpdates
<1>2. e \notin LoadEvents
  BY DEF LoadEvents, Loads
<1>3. \A k \in Names : e \in Disturbing(k) <=> k \in e.keys
  BY DEF Disturbing, Loads
<1>4. \A k \in Names : \A H : e \in Righting(k, H) => H = {}
  BY DEF Righting
<1> HIDE DEF h
<1>5. ASSUME Unique(f), NEW k \in Names
      PROVE  At(Listing(h), k) = IF k \in e.keys THEN {} ELSE At(Listing(f), k)
  BY <1>1, <1>5 DEF At
<1>6. Brings(e, f, h)
  BY <1>1, <1>2, <1>3, <1>4, <1>5 DEF Brings
<1> QED
  BY <1>6 DEF h

(* and so does an upsert. *)
LEMMA UpsertBrings ==
  ASSUME NEW f \in Folder, InView(f), Parted(f), NEW e \in AnyEvent, e.op = "Upsert", Distinct(e.files)
  PROVE  Brings(e, f, Update(f, e))
<1> DEFINE h == Update(f, e)
<1>1. PICK K \in SUBSET Names : e.files \in [K -> Files]
  BY EventFields
<1>2. Unique(f) =>
        /\ Unique(h)
        /\ \A k : ~Touches(e.files, k) => At(Listing(h), k) = At(Listing(f), k)
        /\ (\A k \in K : e.files[k].key = k) => \A k \in K : At(Listing(h), k) = {e.files[k]}
  BY <1>1, UpsertUpdates
<1> HIDE DEF h
<1>3. e \notin LoadEvents
  BY DEF LoadEvents, Loads
<1>4. \A k \in Names : e \in Disturbing(k) <=> Touches(e.files, k)
  BY DEF Disturbing, Loads
<1>5. ASSUME NEW k \in Names, NEW H, e \in Righting(k, H)
      PROVE  k \in K /\ H = {e.files[k]} /\ \A n \in K : e.files[n].key = n
  BY <1>1, <1>5 DEF Righting
<1>6. Brings(e, f, h)
  BY <1>2, <1>3, <1>4, <1>5 DEF Brings
<1> QED
  BY <1>6 DEF h

(* What else there is, but for readings, brings nothing. *)
LEMMA OtherBrings ==
  ASSUME NEW e \in AnyEvent, e.op \in {"Reveal", "Self"}, NEW f, NEW g,
         Listing(g) = Listing(f), Unique(f) => Unique(g)
  PROVE  Brings(e, f, g)
<1>1. e \notin LoadEvents /\ \A k \in Names : e \notin Disturbing(k)
  BY DEF LoadEvents, Disturbing, Loads
<1> QED
  BY <1>1 DEF Brings

-----------------------------------------------------------------------------
(* The parts of the invariant. *)

(* The listing is in order and as preferred. *)
Shows == Parted(home) /\ Tidy(home) /\ AsPreferred(home, pref)

(* No two files of an upsert have the same name, and the only reading in   *)
(* parts is the first.                                                     *)
Ordinary ==
  {e \in AnyEvent : /\ e.op = "Upsert" => Distinct(e.files)
                    /\ e.op \in {"Part", "Done"} => e.ticket = 1}

(* What is to be revealed in f is listed by then. *)
Revealing(q, f) ==
  /\ q # <<>> /\ Head(q).op = "Reveal" => Head(q).key \in AllKeys(f)
  /\ \A i \in 2..Len(q) : q[i].op = "Reveal" =>
       q[i - 1].op = "Upsert" /\ \E k \in DOMAIN q[i - 1].files : q[i - 1].files[k].key = q[i].key

(* A folder that is being loaded will be. *)
Stages ==
  /\ home.ticket = 0 => queue # <<>> /\ Head(queue).op = "Part" /\ Head(queue).files = <<>>
  /\ home.stage = "Loaded" => home.ticket >= 1
  /\ home.stage = "Loading" => home.ticket \in {0, 1}
  /\ home.stage = "Loading" => reading # Idle \/ \E i \in 1..Len(queue) : queue[i].op \in {"Full", "Done"}

(* The torn directory will be known to be stale. *)
Noticed ==
  torn => home.stale \/ Home \in ToSet(pending) \/ \E i \in 1..Len(queue) : queue[i].op = "Self"

(* What a renaming or a creation has changed has been reported. *)
Held == permit # <<>> => permit[1] \in ToSet(pending) /\ permit[2] \in ToSet(pending)

(* Only the first reading is one in parts. *)
Reads ==
  /\ reads >= 1
  /\ reading # Idle => (reading.stream <=> reads = 1) /\ (reading.stream => reading.ticket = 1)

Left == IF reading = Idle THEN {} ELSE ToSet(reading.left)

IsPart(q, i) == i \in 1..Len(q) /\ q[i].op = "Part"

(* The first reading is on its way: what is listed, its parts and what is  *)
(* left to be read together are what is on disk, each file once.           *)
StreamInv ==
  /\ permit = <<>> /\ pending = <<>> /\ ~home.stale /\ home.stage = "Loading"
  /\ \A i \in 1..Len(queue) : queue[i].op = IF reading = Idle /\ i = Len(queue) THEN "Done" ELSE "Part"
  /\ home.ticket = 0 => Listing(home) = {}
  /\ \A i : IsPart(queue, i) /\ queue[i].files = <<>> => i = 1 /\ home.ticket = 0
  /\ Unique(home) /\ Listing(home) \subseteq OnDisk
  /\ \A i : IsPart(queue, i) =>
       /\ Single(queue[i].files) /\ ToSet(queue[i].files) \subseteq OnDisk
       /\ Keys(queue[i].files) \cap (AllKeys(home) \cup Left) = {}
  /\ \A i, j : IsPart(queue, i) /\ IsPart(queue, j) /\ i # j => Keys(queue[i].files) \cap Keys(queue[j].files) = {}
  /\ Left \subseteq Present \ AllKeys(home)
  /\ reading # Idle => IsInjective(reading.left)
  /\ \A k \in Present : k \in AllKeys(home) \cup Left \/ \E i : IsPart(queue, i) /\ k \in Keys(queue[i].files)

(* A later reading is on its way. *)
ReadInv ==
  /\ IsInjective(reading.left) /\ ToSet(reading.left) \subseteq Present
  /\ Single(reading.got) /\ Keys(reading.got) \cap ToSet(reading.left) = {}
  /\ ToSet(reading.got) \cup {File(n, disk[n]) : n \in ToSet(reading.left)} = OnDisk

(* None is: patches bring the listing in line with the disk. *)
PatchInv ==
  /\ Reloads(queue, home)
  /\ \A k \in Names \ ToSet(pending) : Follows(queue, Listing(home), k, Here(k))

Synced ==
  ~torn => /\ reads = 1 /\ OnItsWay => StreamInv
           /\ reads > 1 /\ reading # Idle => ReadInv
           /\ reading = Idle /\ ~(reads = 1 /\ OnItsWay) => PatchInv

SyncInv ==
  /\ Noticed /\ Held /\ Shows /\ queue \in Seq(Ordinary) /\ Revealing(queue, home)
  /\ Reads /\ Stages /\ Synced

(* What the handling of e makes of the folder, which is f then. *)
Handles(e, f) ==
  /\ f \in Folder /\ Parted(f) /\ Tidy(f) /\ AsPreferred(f, pref)
  /\ Brings(e, home, f)
  /\ IF e.op = "Self" THEN f.stale ELSE f.stale = home.stale
  /\ e.op = "Upsert" => \A k \in DOMAIN e.files : e.files[k].key \in AllKeys(f)
  /\ e.op \notin Loads => f.stage = home.stage /\ f.ticket = home.ticket
  /\ e.op = "Full" => f.stage = "Loaded" /\ f.ticket >= 1
  /\ e.op = "Part" =>
       /\ f.stage = home.stage
       /\ f.ticket = IF e.files = <<>> /\ home.stage = "Loading" THEN 1 ELSE home.ticket
  /\ e.op = "Done" =>
       /\ f.ticket = home.ticket
       /\ f.stage = IF home.ticket = 1 THEN "Loaded" ELSE home.stage

(* A part of the first reading, and its end, as a loading folder takes them. *)
Streams(e, f) ==
  /\ e.op = "Part" /\ home.stage = "Loading" =>
       /\ e.files = <<>> => Listing(f) = {} /\ Unique(f)
       /\ e.files # <<>> /\ home.ticket = 1 =>
            /\ Listing(f) = Listing(home) \cup ToSet(e.files)
            /\ Unique(home) /\ Single(e.files) /\ Keys(e.files) \cap AllKeys(home) = {} => Unique(f)
  /\ e.op = "Done" => Listing(f) = Listing(home) /\ (Unique(home) => Unique(f))

(* What is updated and settles. *)
LEMMA SettlesHandled ==
  ASSUME NEW g \in Folder, cwd \in Spots, PrefOK, Parted(g), Tidy(g)
  PROVE  LET f == Settle(g) IN
         /\ f \in Folder /\ Parted(f) /\ Tidy(f) /\ AsPreferred(f, pref)
         /\ f.stale = g.stale /\ f.stage = g.stage /\ f.ticket = g.ticket
         /\ Listing(f) = Listing(g) /\ AllKeys(f) = AllKeys(g) /\ (Unique(g) => Unique(f))
         /\ \A e : Brings(e, home, g) => Brings(e, home, f)
<1> DEFINE f == Settle(g)
<1>1. Rearranges(g, f) /\ AsPreferred(f, pref)
  BY SettleRearranges
<1> HIDE DEF f
<1>2. f \in Folder /\ Listing(f) = Listing(g)
  BY <1>1 DEF Rearranges
<1>3. AllKeys(f) = AllKeys(g)
  BY <1>2, ListingKeys
<1>4. \A e : Brings(e, home, g) => Brings(e, home, f)
  BY <1>1, BringsSettled
<1>5. /\ f \in Folder /\ Parted(f) /\ Tidy(f) /\ AsPreferred(f, pref)
      /\ f.stale = g.stale /\ f.stage = g.stage /\ f.ticket = g.ticket
      /\ Listing(f) = Listing(g) /\ AllKeys(f) = AllKeys(g) /\ (Unique(g) => Unique(f))
      /\ \A e : Brings(e, home, g) => Brings(e, home, f)
  BY <1>1, <1>3, <1>4 DEF Rearranges
<1> QED
  BY <1>5 DEF f

(* The types of what the handlers use. *)
LEMMA HomeFacts ==
  ASSUME TabInv
  PROVE  /\ home \in Folder /\ InView(home) /\ cwd \in Spots /\ PrefOK /\ Home \in Spots
         /\ home.stage \in {"Loading", "Loaded"} /\ home.ticket \in Nat
         /\ queue \in Seq(AnyEvent) /\ issued \in Nat /\ reads \in Nat
         /\ reading \in {Idle} \cup Reading
<1>1. home \in Folder /\ InView(home) /\ cwd \in Spots /\ PrefOK /\ Home \in Spots
  BY DEF TabInv, HomeOK, Spots
<1>2. home.stage \in {"Loading", "Loaded"} /\ home.ticket \in Nat
  BY <1>1, FolderFacts
<1> QED
  BY <1>1, <1>2 DEF TabInv, DataOK

(* A whole reading, *)
LEMMA FullHandled ==
  ASSUME TabInv, Shows, UpdateLoad, Head(queue).op = "Full"
  PROVE  Handles(Head(queue), home') /\ Streams(Head(queue), home')
<1> DEFINE h == Head(queue)
           e == [op |-> "Full", files |-> h.files, ticket |-> issued + 1]
           g == Update(home, e)
<1>1. h \in AnyEvent /\ h.files \in Seq(Files)
  <2>1. queue # <<>>
    BY DEF UpdateLoad, Next1
  <2>2. h \in AnyEvent
    BY <2>1, HomeFacts, Taken
  <2> QED
    BY <2>2, EventFields
<1>2. home' = Settle(g)
  BY DEF UpdateLoad
<1>3. issued + 1 \in Nat /\ issued + 1 >= 1
  BY HomeFacts
<1>4. /\ Changes(home, g) /\ Parted(g) /\ g.ticket = issued + 1 /\ g.stage = "Loaded"
      /\ Listing(g) = ToSet(h.files) /\ (Single(h.files) => Unique(g))
  <2>1. e.op = "Full" /\ e.files = h.files /\ e.ticket = issued + 1
    OBVIOUS
  <2> HIDE DEF e, h
  <2> QED
    BY <1>1, <1>3, <2>1, HomeFacts, FullUpdates
<1> HIDE DEF g, e
<1>5. g \in Folder /\ g.stale = home.stale /\ Tidy(g)
  BY <1>4 DEF Changes, Shows
<1>6. h \in LoadEvents
  BY <1>1 DEF LoadEvents, Loads
<1>7. Brings(h, home, g)
  BY <1>4, <1>6 DEF Brings
<1>8. /\ home' \in Folder /\ Parted(home') /\ Tidy(home') /\ AsPreferred(home', pref)
      /\ home'.stale = g.stale /\ home'.stage = g.stage /\ home'.ticket = g.ticket
      /\ Brings(h, home, home')
  BY <1>2, <1>4, <1>5, <1>7, HomeFacts, SettlesHandled
<1> QED
  BY <1>3, <1>4, <1>5, <1>8 DEF Handles, Streams, Loads

(* a part, *)
LEMMA PartHandled ==
  ASSUME TabInv, Shows, Stages, UpdateLoad, Head(queue).op = "Part", Head(queue).ticket = 1
  PROVE  Handles(Head(queue), home') /\ Streams(Head(queue), home')
<1> DEFINE h == Head(queue)
           g == Update(home, h)
<1>1. h \in AnyEvent /\ h.files \in Seq(Files)
  <2>1. queue # <<>>
    BY DEF UpdateLoad, Next1
  <2>2. h \in AnyEvent
    BY <2>1, HomeFacts, Taken
  <2> QED
    BY <2>2, EventFields
<1>2. home' = Settle(g)
  BY DEF UpdateLoad
<1>3. Late(home, 1) <=> home.stage = "Loaded"
  BY HomeFacts DEF Late, Stages
<1>4. /\ Changes(home, g)
      /\ Late(home, 1) => g = home
      /\ ~Late(home, 1) /\ h.files = <<>> =>
           g.ticket = 1 /\ g.stage = "Loading" /\ Listing(g) = {} /\ Unique(g)
      /\ ~Late(home, 1) /\ h.files # <<>> /\ 1 # home.ticket =>
           g.ticket = home.ticket /\ g.stage = home.stage
      /\ ~Late(home, 1) /\ h.files # <<>> /\ 1 = home.ticket =>
           /\ g.ticket = home.ticket /\ g.stage = "Loading"
           /\ Listing(g) = Listing(home) \cup ToSet(h.files)
           /\ Parted(home) /\ Unique(home) /\ Single(h.files) /\ Keys(h.files) \cap AllKeys(home) = {}
                => Unique(g)
  <2> HIDE DEF h
  <2>1. h.op = "Part" /\ h.ticket = 1
    BY DEF h
  <2> QED
    BY <1>1, <2>1, HomeFacts, PartUpdates
<1> HIDE DEF g
<1>5. g \in Folder /\ g.stale = home.stale /\ Tidy(g) /\ Parted(g) /\ Parted(home)
  BY <1>4 DEF Changes, Shows
<1>6. Brings(h, home, g)
  BY <1>1 DEF Brings, LoadEvents, Loads
<1>7. /\ home' \in Folder /\ Parted(home') /\ Tidy(home') /\ AsPreferred(home', pref)
      /\ home'.stale = g.stale /\ home'.stage = g.stage /\ home'.ticket = g.ticket
      /\ Listing(home') = Listing(g) /\ (Unique(g) => Unique(home'))
      /\ Brings(h, home, home')
  BY <1>2, <1>5, <1>6, HomeFacts, SettlesHandled
<1>8. /\ g.stage = home.stage
      /\ g.ticket = IF h.files = <<>> /\ home.stage = "Loading" THEN 1 ELSE home.ticket
  BY <1>3, <1>4, HomeFacts
<1>9. Streams(h, home')
  <2> SUFFICES ASSUME home.stage = "Loading"
               PROVE  /\ h.files = <<>> => Listing(home') = {} /\ Unique(home')
                      /\ h.files # <<>> /\ home.ticket = 1 =>
                           /\ Listing(home') = Listing(home) \cup ToSet(h.files)
                           /\ Unique(home) /\ Single(h.files) /\ Keys(h.files) \cap AllKeys(home) = {}
                                => Unique(home')
    BY DEF Streams
  <2>1. ~Late(home, 1)
    BY <1>3
  <2> QED
    BY <1>4, <1>5, <1>7, <2>1
<1>10. Handles(h, home')
  BY <1>5, <1>7, <1>8 DEF Handles, Loads
<1> QED
  BY <1>9, <1>10

(* and the end of one; *)
LEMMA DoneHandled ==
  ASSUME TabInv, Shows, UpdateLoad, Head(queue).op = "Done", Head(queue).ticket = 1
  PROVE  Handles(Head(queue), home') /\ Streams(Head(queue), home')
<1> DEFINE h == Head(queue)
           g == Update(home, h)
<1>1. h \in AnyEvent
  <2>1. queue # <<>>
    BY DEF UpdateLoad, Next1
  <2> QED
    BY <2>1, HomeFacts, Taken
<1>2. home' = Settle(g)
  BY DEF UpdateLoad
<1>4. /\ Changes(home, g) /\ g.ticket = home.ticket /\ Listing(g) = Listing(home)
      /\ Unique(home) => Unique(g)
      /\ g.stage = IF 1 = home.ticket THEN "Loaded" ELSE home.stage
  <2> HIDE DEF h
  <2>1. h.op = "Done" /\ h.ticket = 1
    BY DEF h
  <2> QED
    BY <1>1, <2>1, HomeFacts, DoneUpdates
<1> HIDE DEF g
<1>5. g \in Folder /\ g.stale = home.stale /\ Tidy(g) /\ Parted(g)
  BY <1>4 DEF Changes, Shows
<1>6. Brings(h, home, g)
  BY <1>1 DEF Brings, LoadEvents, Loads
<1>7. /\ home' \in Folder /\ Parted(home') /\ Tidy(home') /\ AsPreferred(home', pref)
      /\ home'.stale = g.stale /\ home'.stage = g.stage /\ home'.ticket = g.ticket
      /\ Listing(home') = Listing(g) /\ (Unique(g) => Unique(home'))
      /\ Brings(h, home, home')
  BY <1>2, <1>5, <1>6, HomeFacts, SettlesHandled
<1> QED
  BY <1>4, <1>5, <1>7 DEF Handles, Streams, Loads

(* What keeps the files keeps what an event brings. *)
LEMMA RearrangedHandled ==
  ASSUME NEW g \in Folder, Parted(g), Tidy(g), NEW f, Rearranges(g, f)
  PROVE  /\ f \in Folder /\ Parted(f) /\ Tidy(f)
         /\ f.stale = g.stale /\ f.stage = g.stage /\ f.ticket = g.ticket
         /\ Listing(f) = Listing(g) /\ AllKeys(f) = AllKeys(g) /\ (Unique(g) => Unique(f))
         /\ \A e : Brings(e, home, g) => Brings(e, home, f)
<1>1. f \in Folder /\ Listing(f) = Listing(g)
  BY DEF Rearranges
<1>2. AllKeys(f) = AllKeys(g)
  BY <1>1, ListingKeys
<1>3. \A e : Brings(e, home, g) => Brings(e, home, f)
  BY BringsSettled
<1> QED
  BY <1>1, <1>2, <1>3 DEF Rearranges

(* An upsert, *)
LEMMA UpsertHandled ==
  ASSUME TabInv, Shows, queue \in Seq(Ordinary), UpdateUpserted
  PROVE  Handles(Head(queue), home')
<1> DEFINE h == Head(queue)
           g == Update(home, h)
<1>1. h \in AnyEvent /\ h.op = "Upsert" /\ Distinct(h.files)
  <2>1. queue # <<>> /\ h.op = "Upsert"
    BY DEF UpdateUpserted, Next1
  <2>2. h \in Ordinary
    BY <2>1, Taken
  <2> QED
    BY <2>1, <2>2 DEF Ordinary
<1>2. home' = Settle(g)
  BY DEF UpdateUpserted
<1>3. PICK K \in SUBSET Names : h.files \in [K -> Files]
  BY <1>1, EventFields
<1>4. /\ Changes(home, g) /\ g.ticket = home.ticket /\ g.stage = home.stage
      /\ \A k \in K : h.files[k].key \in AllKeys(g)
  <2> HIDE DEF h
  <2> QED
    BY <1>1, <1>3, HomeFacts, UpsertUpdates
<1>5. Brings(h, home, g)
  <2> HIDE DEF h
  <2> QED
    BY <1>1, HomeFacts, UpsertBrings DEF Shows
<1> HIDE DEF g
<1>6. g \in Folder /\ g.stale = home.stale /\ Tidy(g) /\ Parted(g)
  BY <1>4 DEF Changes, Shows
<1>7. /\ home' \in Folder /\ Parted(home') /\ Tidy(home') /\ AsPreferred(home', pref)
      /\ home'.stale = g.stale /\ home'.stage = g.stage /\ home'.ticket = g.ticket
      /\ AllKeys(home') = AllKeys(g)
      /\ Brings(h, home, home')
  BY <1>2, <1>5, <1>6, HomeFacts, SettlesHandled
<1>8. DOMAIN h.files = K
  BY <1>3
<1> QED
  BY <1>1, <1>4, <1>6, <1>7, <1>8 DEF Handles, Loads

(* a deletion, after which the tab may be elsewhere, *)
LEMMA DeleteHandled ==
  ASSUME TabInv, Shows, UpdateDeleted
  PROVE  \E f : Handles(Head(queue), f) /\ Lands(f)
<1> DEFINE h == Head(queue)
           g == Update(home, h)
<1>1. h \in AnyEvent /\ h.op = "Delete"
  <2>1. queue # <<>> /\ h.op = "Delete"
    BY DEF UpdateDeleted, Next1
  <2> QED
    BY <2>1, HomeFacts, Taken
<1>2. /\ Changes(home, g) /\ g.ticket = home.ticket /\ g.stage = home.stage
  <2> HIDE DEF h
  <2> QED
    BY <1>1, HomeFacts, DeleteUpdates
<1>3. Brings(h, home, g)
  <2> HIDE DEF h
  <2> QED
    BY <1>1, HomeFacts, DeleteBrings DEF Shows
<1>4. \/ \E b : Cd(g, Home, b)
      \/ home' = Settle(g) /\ UNCHANGED <<reads, reading, torn>>
  BY DEF UpdateDeleted, load
<1> HIDE DEF g
<1>5. g \in Folder /\ g.stale = home.stale /\ Tidy(g) /\ Parted(g)
  BY <1>2 DEF Changes, Shows
<1>6. ASSUME NEW f, Rearranges(g, f), AsPreferred(f, pref)
      PROVE  Handles(h, f)
  BY <1>1, <1>2, <1>3, <1>5, <1>6, RearrangedHandled DEF Handles, Loads
<1>7. CASE \E b : Cd(g, Home, b)
  <2> DEFINE f == Calm(Hover(Prefer(g, Home), Home))
  <2>1. Rearranges(g, f) /\ AsPreferred(f, pref)
    BY <1>5, HomeFacts, GoneRearranges
  <2>2. Lands(f)
    BY <1>7, AskLands DEF Cd
  <2> HIDE DEF f
  <2> QED
    BY <1>6, <2>1, <2>2
<1>8. CASE home' = Settle(g) /\ UNCHANGED <<reads, reading, torn>>
  <2>1. Rearranges(g, home') /\ AsPreferred(home', pref)
    BY <1>5, <1>8, HomeFacts, SettleRearranges
  <2>2. Lands(home')
    BY <1>8 DEF Lands
  <2> QED
    BY <1>6, <2>1, <2>2
<1> QED
  BY <1>4, <1>7, <1>8

(* a report of Home itself, *)
LEMMA SelfHandled ==
  ASSUME TabInv, Shows, Invalidate
  PROVE  Handles(Head(queue), home')
<1> DEFINE h == Head(queue)
<1>1. h \in AnyEvent /\ h.op = "Self"
  <2>1. queue # <<>> /\ h.op = "Self"
    BY DEF Invalidate, Next1
  <2> QED
    BY <2>1, HomeFacts, Taken
<1>2. home' = [home EXCEPT !.stale = TRUE]
  BY DEF Invalidate
<1>3. home' \in Folder /\ home'.stale
  BY <1>2, HomeFacts DEF Folder
<1>4. /\ home'.items = home.items /\ home'.hidden = home.hidden /\ home'.ticket = home.ticket
      /\ home'.unsorted = home.unsorted /\ home'.by = home.by /\ home'.filter = home.filter
      /\ home'.show = home.show /\ home'.stage = home.stage
  BY <1>2, HomeFacts DEF Folder
<1>5. Listing(home') = Listing(home) /\ (Unique(home) => Unique(home')) /\ Parted(home')
  BY <1>4 DEF Listing, Unique, Shows, Parted, Visible
<1>6. Tidy(home')
  <2>1. Sorted(home', home.items) = Sorted(home, home.items)
    BY <1>4, SortedSame
  <2> QED
    BY <1>4, <2>1 DEF Shows, Tidy
<1>7. AsPreferred(home', pref)
  BY <1>4 DEF Shows, AsPreferred
<1>8. Brings(h, home, home')
  BY <1>1, <1>5, OtherBrings
<1> QED
  BY <1>1, <1>3, <1>4, <1>5, <1>6, <1>7, <1>8 DEF Handles, Loads

(* and a file that is to be revealed. *)
LEMMA RevealHandled ==
  ASSUME TabInv, Shows, Revealing(queue, home), Reveal
  PROVE  \E f : Handles(Head(queue), f) /\ Lands(f)
<1> DEFINE h == Head(queue)
           k == h.key
           g == Calm(Hover(Prefer(home, Home), Home))
<1>1. h \in AnyEvent /\ h.op = "Reveal" /\ k \in AllKeys(home)
  <2>1. queue # <<>> /\ h.op = "Reveal"
    BY DEF Reveal, Next1
  <2> QED
    BY <2>1, HomeFacts, Taken DEF Revealing
<1>2. k \in Names
  BY <1>1, EventFields
<1>3. \/ home' = RevealIn(home, k) /\ UNCHANGED <<reads, reading, torn>>
      \/ Ask(RevealIn(g, k))
  BY DEF Reveal, load
<1>4. ASSUME NEW f, Rearranges(home, f), AsPreferred(f, pref)
      PROVE  Handles(h, f)
  <2>1. Listing(f) = Listing(home) /\ (Unique(home) => Unique(f))
    BY <1>4 DEF Rearranges, Shows
  <2>2. Brings(h, home, f)
    BY <1>1, <2>1, OtherBrings
  <2> QED
    BY <1>1, <1>4, <2>2, HomeFacts DEF Handles, Loads, Rearranges, Shows
<1>5. CASE home' = RevealIn(home, k) /\ UNCHANGED <<reads, reading, torn>>
  <2>1. Rearranges(home, home') /\ AsPreferred(home', pref)
    BY <1>1, <1>2, <1>5, HomeFacts, RevealRearranges DEF Shows
  <2>2. Lands(home')
    BY <1>5 DEF Lands
  <2> QED
    BY <1>4, <2>1, <2>2
<1>6. CASE Ask(RevealIn(g, k))
  <2>1. Rearranges(home, g) /\ AsPreferred(g, pref)
    BY HomeFacts, GoneRearranges
  <2>2. InView(g)
    BY HomeFacts, CdFacts DEF Rests, FollowedIn
  <2> HIDE DEF g
  <2>3. g \in Folder /\ Parted(g) /\ Listing(g) = Listing(home)
    BY <2>1 DEF Rearranges, Shows
  <2>4. k \in AllKeys(g)
    BY <1>1, <2>3, HomeFacts, ListingKeys
  <2>5. Rearranges(g, RevealIn(g, k)) /\ AsPreferred(RevealIn(g, k), pref)
    BY <1>2, <2>1, <2>2, <2>3, <2>4, HomeFacts, RevealRearranges
  <2>6. Rearranges(home, RevealIn(g, k))
    BY <2>1, <2>5, RearrangesTwice
  <2>7. Lands(RevealIn(g, k))
    BY <1>6, AskLands
  <2> QED
    BY <1>4, <2>5, <2>6, <2>7
<1> QED
  BY <1>3, <1>5, <1>6

(* Whatever is next in the queue, the application handles it. *)
LEMMA Delivered ==
  ASSUME TabInv, Shows, queue \in Seq(Ordinary), Revealing(queue, home), Stages, Deliver
  PROVE  /\ queue # <<>> /\ queue' = Tail(queue) /\ UNCHANGED <<world, pref>>
         /\ \E f : Handles(Head(queue), f) /\ Streams(Head(queue), f) /\ Lands(f)
<1> DEFINE h == Head(queue)
<1>1. queue # <<>> /\ queue' = Tail(queue) /\ UNCHANGED <<world, pref>>
  BY DEF Deliver, UpdateLoad, UpdateUpserted, UpdateDeleted, Invalidate, Reveal, Next1
<1>2. h \in Ordinary
  BY <1>1, Taken
<1>3. CASE UpdateLoad
  <2>1. h.op \in Loads
    BY <1>3 DEF UpdateLoad, Next1
  <2>2. h.op # "Full" => h.ticket = 1
    BY <1>2, <2>1 DEF Ordinary, Loads
  <2>3. Handles(h, home') /\ Streams(h, home')
    BY <1>3, <2>1, <2>2, FullHandled, PartHandled, DoneHandled DEF Loads
  <2>4. Lands(home')
    BY <1>3 DEF UpdateLoad, Lands
  <2> QED
    BY <1>1, <2>3, <2>4
<1>4. ASSUME h.op \notin Loads
      PROVE  \A f : Streams(h, f)
  BY <1>4 DEF Streams, Loads
<1>5. CASE UpdateUpserted
  <2>1. h.op \notin Loads
    BY <1>5 DEF UpdateUpserted, Next1, Loads
  <2>2. Lands(home')
    BY <1>5 DEF UpdateUpserted, Lands, load
  <2> QED
    BY <1>1, <1>4, <1>5, <2>1, <2>2, UpsertHandled
<1>6. CASE UpdateDeleted
  <2>1. h.op \notin Loads
    BY <1>6 DEF UpdateDeleted, Next1, Loads
  <2> QED
    BY <1>1, <1>4, <1>6, <2>1, DeleteHandled
<1>7. CASE Invalidate
  <2>1. h.op \notin Loads
    BY <1>7 DEF Invalidate, Next1, Loads
  <2>2. Lands(home')
    BY <1>7 DEF Invalidate, Lands, load
  <2> QED
    BY <1>1, <1>4, <1>7, <2>1, <2>2, SelfHandled
<1>8. CASE Reveal
  <2>1. h.op \notin Loads
    BY <1>8 DEF Reveal, Next1, Loads
  <2> QED
    BY <1>1, <1>4, <1>8, <2>1, RevealHandled
<1> QED
  BY <1>3, <1>5, <1>6, <1>7, <1>8 DEF Deliver

(* A request is made, *)
Asks(f) ==
  /\ f.stale \/ f.stage = "Loaded"
  /\ reads' = reads + 1 /\ reading' = Begin(issued + 1, FALSE) /\ ~torn'

(* or not; the folder is what it was either way. *)
LEMMA Landed ==
  ASSUME NEW f \in Folder, Lands(f), Parted(f), Tidy(f), NEW p, AsPreferred(f, p)
  PROVE  /\ Parted(home') /\ Tidy(home') /\ AsPreferred(home', p)
         /\ home'.stage = f.stage /\ home'.ticket = f.ticket
         /\ Listing(home') = Listing(f) /\ AllKeys(home') = AllKeys(f)
         /\ Unique(f) => Unique(home')
         /\ \/ home'.stale = f.stale /\ UNCHANGED <<reads, reading, torn>>
            \/ Asks(f)
<1>1. CASE home' = f /\ UNCHANGED <<reads, reading, torn>>
  BY <1>1
<1>2. CASE home' # f \/ ~UNCHANGED <<reads, reading, torn>>
  <2>1. Asks(f) /\ home' = [f EXCEPT !.stale = FALSE]
    BY <1>2 DEF Lands, Asks
  <2> QED
    BY <2>1, StaleSteady
<1> QED
  BY <1>1, <1>2

(* The directory is opened. *)
LEMMA Opened ==
  ASSUME NEW ticket, NEW stream
  PROVE  LET r == Begin(ticket, stream) IN
         /\ r # Idle /\ r.ticket = ticket /\ r.stream = stream /\ r.got = <<>>
         /\ ToSet(r.left) = Present /\ IsInjective(r.left)
<1> DEFINE P == {i \in DOMAIN Alphabet : disk[Alphabet[i]] # Absent}
           l == Pick(Alphabet, P)
           r == Begin(ticket, stream)
<1>1. Alphabet \in Seq(Names) /\ IsInjective(Alphabet) /\ Names = ToSet(Alphabet)
  BY PaneAssumption DEF Names
<1>2. DOMAIN Alphabet = 1..Len(Alphabet) /\ Len(Alphabet) \in Nat
  BY <1>1
<1>3. P \in SUBSET (1..Len(Alphabet))
  BY <1>2
<1>4. r = [ticket |-> ticket, stream |-> stream, got |-> <<>>, left |-> l]
  BY DEF Begin
<1>5. r # Idle
  <2>1. "left" \in DOMAIN r /\ "left" \notin DOMAIN Idle
    BY <1>4 DEF Idle
  <2> QED
    BY <2>1
<1>6. P = {i \in 1..Len(Alphabet) : disk[Alphabet[i]] # Absent}
  BY <1>2
<1> HIDE DEF P
<1>7. /\ l \in Seq(Names) /\ Len(l) = Cardinality(P) /\ Cardinality(P) \in 0..Len(Alphabet)
      /\ \A i \in P : Rank(P, i) + 1 \in 1..Cardinality(P) /\ l[Rank(P, i) + 1] = Alphabet[i]
      /\ \A k \in 1..Cardinality(P) : \E i \in P : k = Rank(P, i) + 1
  BY <1>1, <1>3, PickFacts
<1>8. DOMAIN l = 1..Cardinality(P)
  BY <1>7
<1> HIDE DEF l
<1>9. ToSet(l) = Present
  <2>1. ASSUME NEW n \in ToSet(l) PROVE n \in Present
    <3>1. PICK k \in 1..Cardinality(P) : n = l[k]
      BY <1>8 DEF ToSet
    <3>2. PICK i \in P : k = Rank(P, i) + 1
      BY <1>7
    <3>3. n = Alphabet[i]
      BY <1>7, <3>1, <3>2
    <3> QED
      BY <1>1, <1>6, <3>3 DEF Present
  <2>2. ASSUME NEW n \in Present PROVE n \in ToSet(l)
    <3>1. PICK i \in 1..Len(Alphabet) : Alphabet[i] = n
      <4>1. n \in Names
        BY DEF Present
      <4> QED
        BY <1>1, <1>2, <4>1 DEF ToSet
    <3>2. i \in P
      BY <1>6, <3>1 DEF Present
    <3> QED
      BY <1>7, <1>8, <3>1, <3>2 DEF ToSet
  <2> QED
    BY <2>1, <2>2
<1>10. IsInjective(l)
  <2>1. ASSUME NEW a \in 1..Cardinality(P), NEW b \in 1..Cardinality(P), l[a] = l[b]
        PROVE  a = b
    <3>1. PICK i \in P : a = Rank(P, i) + 1
      BY <1>7
    <3>2. PICK j \in P : b = Rank(P, j) + 1
      BY <1>7
    <3>3. Alphabet[i] = Alphabet[j]
      BY <1>7, <2>1, <3>1, <3>2
    <3>4. i \in DOMAIN Alphabet /\ j \in DOMAIN Alphabet
      BY <1>2, <1>3
    <3>5. i = j
      BY <1>1, <3>3, <3>4 DEF IsInjective
    <3> QED
      BY <3>1, <3>2, <3>5
  <2> QED
    BY <1>8, <2>1 DEF IsInjective
<1> HIDE DEF r
<1>11. r.ticket = ticket /\ r.stream = stream /\ r.got = <<>> /\ r.left = l
  BY <1>4
<1>12. /\ r # Idle /\ r.ticket = ticket /\ r.stream = stream /\ r.got = <<>>
       /\ ToSet(r.left) = Present /\ IsInjective(r.left)
  BY <1>5, <1>9, <1>10, <1>11
<1> QED
  BY <1>12 DEF r

(* What more is to be revealed comes with its upsert. *)
Announces(m) ==
  /\ m # <<>> => m[1].op # "Reveal"
  /\ \A i \in 2..Len(m) : m[i].op = "Reveal" =>
       m[i - 1].op = "Upsert" /\ \E k \in DOMAIN m[i - 1].files : m[i - 1].files[k].key = m[i].key

(* What is queued after it does not disturb what is to be revealed. *)
LEMMA RevealingQueued ==
  ASSUME NEW q \in Seq(AnyEvent), NEW m \in Seq(AnyEvent), NEW f, Revealing(q, f), Announces(m)
  PROVE  Revealing(q \o m, f)
<1> DEFINE r == q \o m
<1>1. /\ r \in Seq(AnyEvent) /\ Len(r) = Len(q) + Len(m) /\ Len(q) \in Nat /\ Len(m) \in Nat
      /\ \A i \in 1..Len(q) : r[i] = q[i]
      /\ \A i \in 1..Len(m) : r[Len(q) + i] = m[i]
      /\ \A i \in 1..Len(r) : i \in 1..Len(q) \/ (i - Len(q) \in 1..Len(m) /\ r[i] = m[i - Len(q)])
  BY Queued
<1>2. q # <<>> => Head(q) = q[1] /\ 1 \in 1..Len(q)
  BY Taken
<1>3. r # <<>> => Head(r) = r[1] /\ 1 \in 1..Len(r)
  BY <1>1, Taken
<1>5. q = <<>> <=> Len(q) = 0
  OBVIOUS
<1>6. m = <<>> <=> Len(m) = 0
  OBVIOUS
<1> HIDE DEF r
<1>7. ASSUME r # <<>>, Head(r).op = "Reveal"
      PROVE  Head(r).key \in AllKeys(f)
  <2>1. CASE 1 \in 1..Len(q)
    BY <1>1, <1>2, <1>3, <1>5, <1>7, <2>1 DEF Revealing
  <2>2. CASE 1 \notin 1..Len(q)
    <3>1. Len(q) = 0
      BY <1>1, <2>2
    <3>2. 1 - Len(q) = 1 /\ r[1] = m[1] /\ m # <<>>
      BY <1>1, <1>3, <1>6, <1>7, <2>2, <3>1
    <3> QED
      BY <1>3, <1>7, <3>2 DEF Announces
  <2> QED
    BY <2>1, <2>2
<1>8. ASSUME NEW i \in 2..Len(r), r[i].op = "Reveal"
      PROVE  r[i - 1].op = "Upsert" /\ \E k \in DOMAIN r[i - 1].files : r[i - 1].files[k].key = r[i].key
  <2>1. CASE i \in 1..Len(q)
    <3>1. i \in 2..Len(q) /\ i - 1 \in 1..Len(q)
      BY <1>1, <2>1, SMTT(60)
    <3>2. r[i] = q[i] /\ r[i - 1] = q[i - 1]
      BY <1>1, <2>1, <3>1
    <3> QED
      BY <1>8, <3>1, <3>2 DEF Revealing
  <2>2. CASE i \notin 1..Len(q)
    <3> DEFINE j == i - Len(q)
    <3>1. i \in 1..Len(r)
      BY <1>1
    <3>2. j \in 1..Len(m) /\ r[i] = m[j] /\ j \in Int
      BY <1>1, <2>2, <3>1
    <3>3. m # <<>>
      BY <1>1, <1>6, <3>2
    <3>4. j # 1
      BY <1>8, <3>2, <3>3 DEF Announces
    <3>5. j \in 2..Len(m) /\ j - 1 \in 1..Len(m)
      BY <1>1, <3>2, <3>4, SMTT(60)
    <3>6. Len(q) + (j - 1) = i - 1
      BY <1>1, SMTT(60)
    <3>7. r[i - 1] = m[j - 1]
      BY <1>1, <3>5, <3>6
    <3> HIDE DEF j
    <3> QED
      BY <1>8, <3>2, <3>5, <3>7 DEF Announces
  <2> QED
    BY <2>1, <2>2
<1>9. Revealing(r, f)
  BY <1>7, <1>8 DEF Revealing
<1> QED
  BY <1>9 DEF r

(* And then it is listed. *)
LEMMA RevealingTaken ==
  ASSUME NEW q \in Seq(AnyEvent), q # <<>>, NEW f, NEW g, Revealing(q, f),
         Head(q).op = "Upsert" => \A k \in DOMAIN Head(q).files : Head(q).files[k].key \in AllKeys(g)
  PROVE  Revealing(Tail(q), g)
<1> DEFINE t == Tail(q)
<1>1. /\ t \in Seq(AnyEvent) /\ Len(t) = Len(q) - 1 /\ Len(q) \in Nat \ {0}
      /\ \A i \in 1..Len(q)-1 : t[i] = q[i + 1]
      /\ Head(q) = q[1]
  BY Taken
<1>2. t # <<>> => Head(t) = t[1] /\ 1 \in 1..Len(t)
  BY <1>1, Taken
<1> HIDE DEF t
<1>3. ASSUME t # <<>>, Head(t).op = "Reveal"
      PROVE  Head(t).key \in AllKeys(g)
  <2>1. 2 \in 2..Len(q) /\ t[1] = q[2]
    BY <1>1, <1>2, <1>3
  <2>2. q[2].op = "Reveal" /\ 2 - 1 = 1
    BY <1>2, <1>3, <2>1
  <2>3. q[1].op = "Upsert" /\ \E k \in DOMAIN q[1].files : q[1].files[k].key = q[2].key
    BY <2>1, <2>2 DEF Revealing
  <2> QED
    BY <1>1, <1>2, <1>3, <2>1, <2>3
<1>4. ASSUME NEW i \in 2..Len(t), t[i].op = "Reveal"
      PROVE  t[i - 1].op = "Upsert" /\ \E k \in DOMAIN t[i - 1].files : t[i - 1].files[k].key = t[i].key
  <2>1. i \in 1..Len(q)-1 /\ i - 1 \in 1..Len(q)-1 /\ i + 1 \in 2..Len(q) /\ (i - 1) + 1 = i /\ (i + 1) - 1 = i
    BY <1>1, SMTT(60)
  <2>2. t[i] = q[i + 1] /\ t[i - 1] = q[i]
    BY <1>1, <2>1
  <2>3. q[i].op = "Upsert" /\ \E k \in DOMAIN q[i].files : q[i].files[k].key = q[i + 1].key
    BY <1>4, <2>1, <2>2 DEF Revealing
  <2> QED
    BY <2>2, <2>3
<1>5. Revealing(t, g)
  BY <1>3, <1>4 DEF Revealing
<1> QED
  BY <1>5 DEF t

(* A part of what is left is read. *)
Portion(k) == [i \in 1..k |-> File(reading.left[i], IF disk[reading.left[i]] = Absent THEN Dummy
                                                    ELSE disk[reading.left[i]])]
PortionNames(k) == {reading.left[i] : i \in 1..k}

(* It holds the files that it takes from what is left. *)
LEMMA ReadPortion ==
  ASSUME TabInv, reading # Idle, NEW k \in 1..Len(reading.left),
         IsInjective(reading.left), ToSet(reading.left) \subseteq Present
  PROVE  LET files == Portion(k)
             rest  == SubSeq(reading.left, k + 1, Len(reading.left))
         IN  /\ files \in Seq(Files) /\ Single(files) /\ files # <<>>
             /\ Keys(files) = PortionNames(k) /\ ToSet(files) = {File(n, disk[n]) : n \in PortionNames(k)}
             /\ PortionNames(k) \subseteq ToSet(reading.left)
             /\ ToSet(rest) = ToSet(reading.left) \ PortionNames(k)
             /\ IsInjective(rest) /\ rest \in Seq(Names)
<1> DEFINE left == reading.left
           files == Portion(k)
           rest  == SubSeq(left, k + 1, Len(left))
           T == PortionNames(k)
<1>1. left \in Seq(Names) /\ Len(left) \in Nat /\ DOMAIN left = 1..Len(left)
  BY DEF TabInv, DataOK, Reading
<1>2. k \in Nat /\ 1..k \subseteq 1..Len(left) /\ k >= 1
  BY <1>1
<1>3. \A i, j \in 1..Len(left) : left[i] = left[j] => i = j
  BY <1>1 DEF IsInjective
<1>4. ToSet(left) = {left[i] : i \in 1..Len(left)}
  BY <1>1 DEF ToSet
<1>5. \A i \in 1..k : left[i] \in Present /\ left[i] \in ToSet(left)
  BY <1>2, <1>4
<1>6. \A n \in Present : n \in Names /\ disk[n] # Absent /\ File(n, disk[n]) \in Files
  BY DiskStats DEF TabInv, Present
<1>7. \A i \in 1..k : Portion(k)[i] = File(left[i], disk[left[i]])
  BY <1>5, <1>6 DEF Portion
<1>8. DOMAIN files = 1..k /\ files = [i \in 1..k |-> files[i]]
  BY DEF Portion
<1>9. \A i \in 1..k : files[i] = File(left[i], disk[left[i]]) /\ files[i] \in Files /\ files[i].key = left[i]
  BY <1>5, <1>6, <1>7 DEF File
<1>10. T = {left[i] : i \in 1..k}
  BY DEF PortionNames
<1> HIDE DEF files, T
<1>11. files \in Seq(Files) /\ files # <<>>
  <2>1. files \in [1..k -> Files]
    BY <1>8, <1>9
  <2>2. files \in Seq(Files)
    BY <1>2, <2>1
  <2>3. 1 \in DOMAIN files
    BY <1>2, <1>8
  <2> QED
    BY <2>2, <2>3
<1>12. Single(files)
  BY <1>2, <1>3, <1>8, <1>9 DEF Single
<1>13. Keys(files) = T
  BY <1>8, <1>9, <1>10 DEF Keys
<1>14. ToSet(files) = {File(n, disk[n]) : n \in T}
  BY <1>8, <1>9, <1>10 DEF ToSet
<1>15. T \subseteq ToSet(left)
  BY <1>5, <1>10
<1>16. /\ rest \in Seq(Names) /\ Len(rest) = Len(left) - k
       /\ DOMAIN rest = 1..Len(left)-k
       /\ \A i \in 1..Len(left)-k : rest[i] = left[k + i] /\ k + i \in k+1..Len(left)
  <2>1. rest \in Seq(Names) /\ Len(rest) = Len(left) - k
    BY <1>1, <1>2, SMTT(60)
  <2>2. \A i \in 1..Len(left)-k : rest[i] = left[k + 1 + i - 1]
    BY <1>1, <1>2, SMTT(60)
  <2>3. \A i \in 1..Len(left)-k : k + 1 + i - 1 = k + i /\ k + i \in k+1..Len(left)
    BY <1>1, <1>2, SMTT(60)
  <2>4. DOMAIN rest = 1..Len(left)-k
    BY <2>1
  <2> HIDE DEF rest
  <2> QED
    BY <2>1, <2>2, <2>3, <2>4
<1> HIDE DEF rest
<1>17. ToSet(rest) = ToSet(left) \ T
  <2>1. ASSUME NEW n \in ToSet(rest) PROVE n \in ToSet(left) /\ n \notin T
    <3>1. PICK i \in 1..Len(left)-k : n = rest[i]
      BY <1>16 DEF ToSet
    <3>2. n = left[k + i] /\ k + i \in k+1..Len(left)
      BY <1>16, <3>1
    <3>3. k + i \in 1..Len(left) /\ \A j \in 1..k : j # k + i /\ j \in 1..Len(left)
      BY <1>1, <1>2, <3>1, SMTT(60)
    <3> QED
      BY <1>3, <1>4, <1>10, <3>2, <3>3
  <2>2. ASSUME NEW n \in ToSet(left), n \notin T PROVE n \in ToSet(rest)
    <3>1. PICK j \in 1..Len(left) : n = left[j]
      BY <1>4
    <3>2. j \notin 1..k
      BY <1>10, <2>2, <3>1
    <3>3. j - k \in 1..Len(left)-k /\ k + (j - k) = j
      BY <1>1, <1>2, <3>2, SMTT(60)
    <3>4. rest[j - k] = n
      BY <1>16, <3>1, <3>3
    <3> QED
      BY <1>16, <3>3, <3>4 DEF ToSet
  <2> QED
    BY <2>1, <2>2
<1>18. IsInjective(rest)
  <2>1. ASSUME NEW i \in 1..Len(left)-k, NEW j \in 1..Len(left)-k, rest[i] = rest[j]
        PROVE  i = j
    <3>1. left[k + i] = left[k + j]
      BY <1>16, <2>1
    <3>2. k + i \in 1..Len(left) /\ k + j \in 1..Len(left)
      BY <1>1, <1>2, SMTT(60)
    <3>3. k + i = k + j
      BY <1>3, <3>1, <3>2
    <3> QED
      BY <1>2, <3>3
  <2> QED
    BY <1>16, <2>1 DEF IsInjective
<1>19. /\ files \in Seq(Files) /\ Single(files) /\ files # <<>>
       /\ Keys(files) = T /\ ToSet(files) = {File(n, disk[n]) : n \in T}
       /\ T \subseteq ToSet(left)
       /\ ToSet(rest) = ToSet(left) \ T
       /\ IsInjective(rest) /\ rest \in Seq(Names)
  BY <1>11, <1>12, <1>13, <1>14, <1>15, <1>16, <1>17, <1>18
<1> QED
  BY <1>19 DEF files, T, rest

(* What reading it does. *)
LEMMA ReadDoes ==
  ASSUME TabInv, reading # Idle, NEW k \in 1..Len(reading.left), Read(k)
  PROVE  /\ reading'.left = SubSeq(reading.left, k + 1, Len(reading.left))
         /\ reading'.got = IF reading.stream THEN reading.got ELSE reading.got \o Portion(k)
         /\ reading'.stream = reading.stream /\ reading'.ticket = reading.ticket /\ reading' # Idle
         /\ queue' = IF reading.stream
                     THEN Append(queue, [op |-> "Part", files |-> Portion(k), ticket |-> reading.ticket])
                     ELSE queue
         /\ UNCHANGED <<world, issued, reads, home, pref, torn>>
<1>1. reading = [ticket |-> reading.ticket, stream |-> reading.stream, left |-> reading.left,
                 got |-> reading.got]
  BY DEF TabInv, DataOK, Reading
<1>2. reading' = [reading EXCEPT !.left = SubSeq(@, k + 1, Len(@)),
                                 !.got  = IF reading.stream THEN @ ELSE @ \o Portion(k)]
  BY DEF Read, Portion
<1>3. /\ reading'.left = SubSeq(reading.left, k + 1, Len(reading.left))
      /\ reading'.got = IF reading.stream THEN reading.got ELSE reading.got \o Portion(k)
      /\ reading'.stream = reading.stream /\ reading'.ticket = reading.ticket
  BY <1>1, <1>2
<1>4. reading' # Idle
  <2>1. "left" \in DOMAIN reading' /\ "left" \notin DOMAIN Idle
    BY <1>1, <1>2 DEF Idle
  <2> QED
    BY <2>1
<1>5. /\ queue' = IF reading.stream
                  THEN Append(queue, [op |-> "Part", files |-> Portion(k), ticket |-> reading.ticket])
                  ELSE queue
      /\ UNCHANGED <<world, issued, reads, home, pref, torn>>
  BY DEF Read, Portion
<1> QED
  BY <1>3, <1>4, <1>5

(* A later reading goes on, *)
LEMMA ReadGoesOn ==
  ASSUME TabInv, reading # Idle, ~reading.stream, ReadInv, NEW k \in 1..Len(reading.left), Read(k)
  PROVE  ReadInv'
<1> DEFINE files == Portion(k)
           rest  == SubSeq(reading.left, k + 1, Len(reading.left))
           T == PortionNames(k)
<1>1. /\ reading'.left = rest /\ reading'.got = reading.got \o files
      /\ UNCHANGED disk
  BY ReadDoes DEF world
<1>2. /\ files \in Seq(Files) /\ Single(files)
      /\ Keys(files) = T /\ ToSet(files) = {File(n, disk[n]) : n \in T}
      /\ T \subseteq ToSet(reading.left)
      /\ ToSet(rest) = ToSet(reading.left) \ T
      /\ IsInjective(rest)
  BY ReadPortion DEF ReadInv
<1>3. OnDisk' = OnDisk /\ Present' = Present
  BY <1>1 DEF OnDisk, Present
<1> HIDE DEF files, rest, T
<1>4. reading.got \in Seq(Files)
  BY DEF TabInv, DataOK, Reading
<1>5. /\ ToSet(reading.got \o files) = ToSet(reading.got) \cup ToSet(files)
      /\ Keys(reading.got \o files) = Keys(reading.got) \cup Keys(files)
      /\ Single(reading.got \o files)
  <2>1. Keys(reading.got) \cap Keys(files) = {}
    BY <1>2 DEF ReadInv
  <2> QED
    BY <1>2, <1>4, <2>1, ConcatFiles, ConcatKeys DEF ReadInv
<1>6. ToSet(reading'.got) \cup {File(n, disk'[n]) : n \in ToSet(reading'.left)} = OnDisk'
  <2>1. {File(n, disk[n]) : n \in ToSet(reading.left)}
          = {File(n, disk[n]) : n \in T} \cup {File(n, disk[n]) : n \in ToSet(rest)}
    BY <1>2
  <2> QED
    BY <1>1, <1>2, <1>3, <1>5, <2>1 DEF ReadInv
<1>7. Keys(reading'.got) \cap ToSet(reading'.left) = {}
  BY <1>1, <1>2, <1>5 DEF ReadInv
<1>8. IsInjective(reading'.left) /\ ToSet(reading'.left) \subseteq Present'
  BY <1>1, <1>2, <1>3 DEF ReadInv
<1>9. Single(reading'.got)
  BY <1>1, <1>5
<1> QED
  BY <1>6, <1>7, <1>8, <1>9 DEF ReadInv

(* To append is to put after it. *)
LEMMA Appended ==
  ASSUME NEW S, NEW q \in Seq(S), NEW e \in S
  PROVE  Append(q, e) = q \o <<e>> /\ <<e>> \in Seq(S) /\ Len(<<e>>) = 1 /\ <<e>>[1] = e
<1>1. <<e>> \in Seq(S) /\ Len(<<e>>) = 1 /\ <<e>>[1] = e
  BY SMTT(60)
<1>2. Append(q, e) = q \o <<e>>
  BY SMTT(60)
<1> QED
  BY <1>1, <1>2

(* and ends. *)
LEMMA ReadEnds ==
  ASSUME TabInv, reading # Idle, ~reading.stream, ReadInv, EndRead
  PROVE  PatchInv'
<1> DEFINE e == [op |-> "Full", files |-> reading.got]
           m == <<e>>
<1>1. /\ reading.left = <<>> /\ queue' = Append(queue, e) /\ UNCHANGED <<disk, pending, home>>
  BY DEF EndRead, world
<1>2. queue \in Seq(AnyEvent) /\ reading.got \in Seq(Files)
  BY DEF TabInv, DataOK, Reading
<1>3. e \in AnyEvent
  BY <1>2, NewEvents
<1>4. queue' = queue \o m /\ m \in Seq(AnyEvent) /\ Len(m) = 1 /\ m[1] = e
  BY <1>1, <1>2, <1>3, Appended
<1>5. e.op = "Full" /\ e.files = reading.got
  OBVIOUS
<1> HIDE DEF e, m
<1>6. ToSet(reading.got) = OnDisk /\ Single(reading.got)
  <2>1. ToSet(reading.left) = {}
    BY <1>1 DEF ToSet
  <2> QED
    BY <2>1 DEF ReadInv
<1>7. e \in LoadEvents /\ e \in WholeEvents
  BY <1>3, <1>5, <1>6 DEF LoadEvents, WholeEvents, Loads
<1>8. \A k : e \in Disturbing(k) /\ e \in Righting(k, Here(k))
  BY <1>3, <1>5, <1>6 DEF Disturbing, Righting, Here, Loads
<1>9. 1 \in 1..Len(m) /\ \A i \in 1..Len(m) : m[i] = e
  BY <1>4
<1>10. ~NoneOf(m, LoadEvents) /\ \A k : ~NoneOf(m, Disturbing(k))
  BY <1>7, <1>8, <1>9 DEF NoneOf
<1>11. LastOf(queue', LoadEvents, WholeEvents)
  BY <1>2, <1>4, <1>7, <1>9, <1>10, LastQueued
<1>12. ~NoneOf(queue', LoadEvents)
  BY <1>2, <1>4, <1>10, NoneQueued
<1>13. Reloads(queue', home')
  BY <1>11, <1>12 DEF Reloads
<1>14. ASSUME NEW k PROVE Follows(queue', Listing(home'), k, Here(k))
  BY <1>2, <1>4, <1>8, <1>9, <1>10, FollowsQueued
<1>15. ASSUME NEW k PROVE Here(k)' = Here(k)
  BY <1>1 DEF Here, OnDisk, Present
<1> QED
  BY <1>13, <1>14, <1>15 DEF PatchInv

(* The first reading brings another part, *)
LEMMA StreamReads ==
  ASSUME TabInv, reading # Idle, reading.stream, reading.ticket = 1, StreamInv, Stages,
         NEW k \in 1..Len(reading.left), Read(k)
  PROVE  StreamInv'
<1> DEFINE files == Portion(k)
           rest  == SubSeq(reading.left, k + 1, Len(reading.left))
           T == PortionNames(k)
           e == [op |-> "Part", files |-> files, ticket |-> reading.ticket]
           n == Len(queue)
<1>1. /\ reading'.left = rest /\ reading' # Idle
      /\ queue' = Append(queue, e)
      /\ UNCHANGED <<disk, pending, permit, home>>
  BY ReadDoes DEF world
<1>2. Left = ToSet(reading.left) /\ Left' = ToSet(rest)
  BY <1>1 DEF Left
<1>3. /\ files \in Seq(Files) /\ Single(files) /\ files # <<>>
      /\ Keys(files) = T /\ ToSet(files) = {File(m, disk[m]) : m \in T}
      /\ T \subseteq Left
      /\ Left' = Left \ T
      /\ IsInjective(rest)
  <2>1. IsInjective(reading.left) /\ ToSet(reading.left) \subseteq Present
    BY <1>2 DEF StreamInv
  <2> QED
    BY <1>2, <2>1, ReadPortion
<1>4. OnDisk' = OnDisk /\ Present' = Present
  BY <1>1 DEF OnDisk, Present
<1>5. queue \in Seq(AnyEvent)
  BY HomeFacts
<1>6. e \in AnyEvent
  <2>1. reading.ticket \in Nat
    OBVIOUS
  <2> HIDE DEF files
  <2> QED
    BY <1>3, <2>1, NewEvents
<1>7. e.op = "Part" /\ e.files = files
  OBVIOUS
<1> HIDE DEF files, rest, T, e
<1>8. /\ n \in Nat /\ Len(queue') = n + 1
      /\ \A i \in 1..n : queue'[i] = queue[i]
      /\ queue'[n + 1] = e
  BY <1>1, <1>5, <1>6, SMTT(60)
<1> HIDE DEF n
<1>9. \A i : IsPart(queue', i) <=> IsPart(queue, i) \/ i = n + 1
  <2> HIDE DEF n
  <2>1. ASSUME NEW i, IsPart(queue', i), i # n + 1 PROVE IsPart(queue, i)
    <3>1. i \in 1..n+1 /\ queue'[i].op = "Part"
      BY <1>8, <2>1 DEF IsPart
    <3>2. i \in 1..n
      BY <1>8, <2>1, <3>1
    <3>3. queue[i].op = "Part"
      BY <1>8, <3>1, <3>2
    <3> QED
      BY <3>2, <3>3 DEF IsPart, n
  <2>2. ASSUME NEW i, IsPart(queue, i) PROVE IsPart(queue', i)
    <3>1. i \in 1..n /\ queue[i].op = "Part"
      BY <2>2 DEF IsPart, n
    <3>2. i \in 1..n+1 /\ queue'[i].op = "Part"
      BY <1>8, <3>1
    <3> QED
      BY <1>8, <3>2 DEF IsPart
  <2>3. IsPart(queue', n + 1)
    BY <1>7, <1>8 DEF IsPart
  <2> QED
    BY <2>1, <2>2, <2>3
<1>10. \A i : IsPart(queue, i) => queue'[i] = queue[i] /\ i # n + 1
  BY <1>8 DEF IsPart, n
<1>11. queue'[n + 1].files = files
  BY <1>7, <1>8
<1>12. T \subseteq Present /\ ToSet(files) \subseteq OnDisk
  BY <1>3 DEF StreamInv, OnDisk
<1>13. T \cap AllKeys(home) = {}
  BY <1>3 DEF StreamInv
<1>14. /\ permit' = <<>> /\ pending' = <<>> /\ ~home'.stale /\ home'.stage = "Loading"
       /\ Unique(home') /\ Listing(home') \subseteq OnDisk'
       /\ home'.ticket = 0 => Listing(home') = {}
  BY <1>1, <1>4 DEF StreamInv
<1>15. ASSUME NEW i \in 1..Len(queue')
       PROVE  queue'[i].op = IF reading' = Idle /\ i = Len(queue') THEN "Done" ELSE "Part"
  <2>1. CASE i = n + 1
    BY <1>1, <1>7, <1>8, <2>1
  <2>2. CASE i # n + 1
    <3>1. i \in 1..n
      BY <1>8, <2>2
    <3>2. queue[i].op = "Part"
      BY <3>1 DEF StreamInv, n
    <3> QED
      BY <1>1, <1>8, <3>1, <3>2
  <2> QED
    BY <2>1, <2>2
<1>16. ASSUME NEW i, IsPart(queue', i), queue'[i].files = <<>>
       PROVE  i = 1 /\ home'.ticket = 0
  BY <1>1, <1>3, <1>9, <1>10, <1>11, <1>16 DEF StreamInv
<1>17. ASSUME NEW i, IsPart(queue', i)
       PROVE  /\ Single(queue'[i].files) /\ ToSet(queue'[i].files) \subseteq OnDisk'
              /\ Keys(queue'[i].files) \cap (AllKeys(home') \cup Left') = {}
  <2>1. CASE i = n + 1
    BY <1>1, <1>3, <1>4, <1>11, <1>12, <1>13, <2>1
  <2>2. CASE IsPart(queue, i)
    BY <1>1, <1>3, <1>4, <1>10, <2>2 DEF StreamInv
  <2> QED
    BY <1>9, <1>17, <2>1, <2>2
<1>18. ASSUME NEW i, NEW j, IsPart(queue', i), IsPart(queue', j), i # j
       PROVE  Keys(queue'[i].files) \cap Keys(queue'[j].files) = {}
  <2>1. ASSUME NEW a, IsPart(queue, a)
        PROVE  Keys(queue[a].files) \cap T = {} /\ queue'[a] = queue[a]
    BY <1>3, <1>10, <2>1 DEF StreamInv
  <2>2. CASE IsPart(queue, i) /\ IsPart(queue, j)
    BY <1>10, <1>18, <2>2 DEF StreamInv
  <2>3. CASE i = n + 1 /\ IsPart(queue, j)
    BY <1>3, <1>11, <2>1, <2>3
  <2>4. CASE IsPart(queue, i) /\ j = n + 1
    BY <1>3, <1>11, <2>1, <2>4
  <2> QED
    BY <1>9, <1>18, <2>2, <2>3, <2>4
<1>19. Left' \subseteq Present' \ AllKeys(home')
  BY <1>1, <1>3, <1>4 DEF StreamInv
<1>20. IsInjective(reading'.left)
  BY <1>1, <1>3
<1>21. ASSUME NEW x \in Present'
       PROVE  x \in AllKeys(home') \cup Left' \/ \E i : IsPart(queue', i) /\ x \in Keys(queue'[i].files)
  <2>1. x \in AllKeys(home) \cup Left \/ \E i : IsPart(queue, i) /\ x \in Keys(queue[i].files)
    BY <1>4 DEF StreamInv
  <2>2. CASE x \in AllKeys(home)
    BY <1>1, <2>2
  <2>3. CASE x \in T
    BY <1>3, <1>9, <1>11, <2>3
  <2>4. CASE x \in Left \ T
    BY <1>3, <2>4
  <2>5. CASE \E i : IsPart(queue, i) /\ x \in Keys(queue[i].files)
    BY <1>9, <1>10, <2>5
  <2> QED
    BY <2>1, <2>2, <2>3, <2>4, <2>5
<1> QED
  BY <1>14, <1>15, <1>16, <1>17, <1>18, <1>19, <1>20, <1>21 DEF StreamInv

(* ends, *)
LEMMA StreamEnds ==
  ASSUME TabInv, reading # Idle, reading.stream, StreamInv, EndRead
  PROVE  StreamInv'
<1> DEFINE e == [op |-> "Done", ticket |-> reading.ticket]
           n == Len(queue)
<1>1. /\ reading.left = <<>> /\ reading' = Idle
      /\ queue' = Append(queue, e)
      /\ UNCHANGED <<disk, pending, permit, home>>
  BY DEF EndRead, world
<1>2. Left = {} /\ Left' = {}
  BY <1>1 DEF Left, ToSet
<1>4. OnDisk' = OnDisk /\ Present' = Present
  BY <1>1 DEF OnDisk, Present
<1>5. queue \in Seq(AnyEvent)
  BY HomeFacts
<1>6. e \in AnyEvent
  <2>1. reading.ticket \in Nat
    BY DEF TabInv, DataOK, Reading
  <2> QED
    BY <2>1, NewEvents
<1>7. e.op = "Done"
  OBVIOUS
<1> HIDE DEF e
<1>8. /\ n \in Nat /\ Len(queue') = n + 1
      /\ \A i \in 1..n : queue'[i] = queue[i]
      /\ queue'[n + 1] = e
  BY <1>1, <1>5, <1>6, SMTT(60)
<1> HIDE DEF n
<1>9. \A i : IsPart(queue', i) <=> IsPart(queue, i)
  <2>1. ASSUME NEW i, IsPart(queue', i) PROVE IsPart(queue, i)
    BY <1>7, <1>8, <2>1 DEF IsPart, n
  <2>2. ASSUME NEW i, IsPart(queue, i) PROVE IsPart(queue', i)
    BY <1>8, <2>2 DEF IsPart, n
  <2> QED
    BY <2>1, <2>2
<1>10. \A i : IsPart(queue, i) => queue'[i] = queue[i]
  BY <1>8 DEF IsPart, n
<1>14. /\ permit' = <<>> /\ pending' = <<>> /\ ~home'.stale /\ home'.stage = "Loading"
       /\ Unique(home') /\ Listing(home') \subseteq OnDisk'
       /\ home'.ticket = 0 => Listing(home') = {}
  BY <1>1, <1>4 DEF StreamInv
<1>15. ASSUME NEW i \in 1..Len(queue')
       PROVE  queue'[i].op = IF reading' = Idle /\ i = Len(queue') THEN "Done" ELSE "Part"
  <2>1. CASE i = n + 1
    BY <1>1, <1>7, <1>8, <2>1
  <2>2. CASE i # n + 1
    <3>1. i \in 1..n
      BY <1>8, <2>2
    <3>2. queue[i].op = "Part"
      BY <3>1 DEF StreamInv, n
    <3> QED
      BY <1>8, <2>2, <3>1, <3>2
  <2> QED
    BY <2>1, <2>2
<1>16. ASSUME NEW i, IsPart(queue', i), queue'[i].files = <<>>
       PROVE  i = 1 /\ home'.ticket = 0
  BY <1>1, <1>9, <1>10, <1>16 DEF StreamInv
<1>17. ASSUME NEW i, IsPart(queue', i)
       PROVE  /\ Single(queue'[i].files) /\ ToSet(queue'[i].files) \subseteq OnDisk'
              /\ Keys(queue'[i].files) \cap (AllKeys(home') \cup Left') = {}
  BY <1>1, <1>2, <1>4, <1>9, <1>10, <1>17 DEF StreamInv
<1>18. ASSUME NEW i, NEW j, IsPart(queue', i), IsPart(queue', j), i # j
       PROVE  Keys(queue'[i].files) \cap Keys(queue'[j].files) = {}
  BY <1>9, <1>10, <1>18, ZenonT(60) DEF StreamInv
<1>19. Left' \subseteq Present' \ AllKeys(home')
  BY <1>2
<1>21. ASSUME NEW x \in Present'
       PROVE  x \in AllKeys(home') \cup Left' \/ \E i : IsPart(queue', i) /\ x \in Keys(queue'[i].files)
  <2>1. x \in AllKeys(home) \/ \E i : IsPart(queue, i) /\ x \in Keys(queue[i].files)
    BY <1>2, <1>4 DEF StreamInv
  <2> QED
    BY <1>1, <1>9, <1>10, <2>1
<1> QED
  BY <1>1, <1>14, <1>15, <1>16, <1>17, <1>18, <1>19, <1>21 DEF StreamInv

(* and its parts come to the listing *)
LEMMA StreamTaken ==
  ASSUME TabInv, Stages, StreamInv, queue # <<>>, Head(queue).op = "Part", queue' = Tail(queue),
         UNCHANGED <<disk, pending, permit, reading>>,
         home' \in Folder, ~home'.stale, home'.stage = "Loading",
         home'.ticket = IF Head(queue).files = <<>> THEN 1 ELSE home.ticket,
         Streams(Head(queue), home')
  PROVE  StreamInv'
<1> DEFINE h == Head(queue)
           n == Len(queue)
<1>1. /\ n \in Nat \ {0} /\ Len(queue') = n - 1 /\ h = queue[1] /\ h \in AnyEvent
      /\ \A i \in 1..n-1 : queue'[i] = queue[i + 1] /\ i + 1 \in 1..n /\ i + 1 # 1
  <2>1. queue \in Seq(AnyEvent)
    BY HomeFacts
  <2>2. /\ n \in Nat \ {0} /\ Len(queue') = n - 1 /\ h = queue[1] /\ h \in AnyEvent
        /\ \A i \in 1..n-1 : queue'[i] = queue[i + 1]
    BY <2>1, Taken
  <2>3. \A i \in 1..n-1 : i + 1 \in 1..n /\ i + 1 # 1
    BY <2>2, SMTT(60)
  <2> QED
    BY <2>2, <2>3
<1>2. h.files \in Seq(Files)
  BY <1>1, EventFields
<1>3. IsPart(queue, 1) /\ queue[1] = h
  BY <1>1 DEF IsPart
<1> HIDE DEF h, n
<1>4. home \in Folder /\ home.stage = "Loading" /\ home.ticket \in {0, 1}
  BY HomeFacts DEF StreamInv, Stages
<1>5. home.ticket = 0 <=> h.files = <<>>
  BY <1>3 DEF Stages, StreamInv, h
<1>6. /\ Single(h.files) /\ ToSet(h.files) \subseteq OnDisk
      /\ Keys(h.files) \cap AllKeys(home) = {} /\ Keys(h.files) \cap Left = {}
  BY <1>3 DEF StreamInv
<1>7. Listing(home') = Listing(home) \cup ToSet(h.files) /\ Unique(home')
  <2>1. CASE h.files = <<>>
    <3>1. Listing(home) = {}
      BY <1>5, <2>1 DEF StreamInv
    <3>2. ToSet(h.files) = {}
      BY <2>1 DEF ToSet
    <3>3. Listing(home') = {} /\ Unique(home')
      BY <1>4, <2>1 DEF Streams, StreamInv, h
    <3> QED
      BY <3>1, <3>2, <3>3
  <2>2. CASE h.files # <<>>
    <3>1. home.ticket = 1
      BY <1>4, <1>5, <2>2
    <3> QED
      BY <1>4, <1>6, <2>2, <3>1 DEF Streams, StreamInv, h
  <2> QED
    BY <2>1, <2>2
<1>8. AllKeys(home') = AllKeys(home) \cup Keys(h.files)
  <2>1. Keys(h.files) = {x.key : x \in ToSet(h.files)}
    BY <1>2, KeysOf
  <2>2. /\ AllKeys(home) = {x.key : x \in Listing(home)}
        /\ AllKeys(home') = {x.key : x \in Listing(home')}
    BY <1>4, ListingKeys
  <2> QED
    BY <1>7, <2>1, <2>2
<1>9. OnDisk' = OnDisk /\ Present' = Present /\ Left' = Left
  BY DEF OnDisk, Present, Left
<1>10. home'.ticket = 1
  BY <1>4, <1>5 DEF h
<1>11. \A i : IsPart(queue', i) => i + 1 # 1 /\ IsPart(queue, i + 1) /\ queue'[i] = queue[i + 1] /\ i \in 1..n-1
  BY <1>1 DEF IsPart, n
<1>12. \A i : IsPart(queue, i) /\ i # 1 =>
         IsPart(queue', i - 1) /\ queue'[i - 1] = queue[i]
  <2>1. ASSUME NEW i, IsPart(queue, i), i # 1
        PROVE  IsPart(queue', i - 1) /\ queue'[i - 1] = queue[i]
    <3>1. i \in 1..n /\ queue[i].op = "Part"
      BY <2>1 DEF IsPart, n
    <3>2. i - 1 \in 1..n-1 /\ (i - 1) + 1 = i
      BY <1>1, <2>1, <3>1, SMTT(60)
    <3>3. queue'[i - 1] = queue[i]
      BY <1>1, <3>2
    <3> QED
      BY <1>1, <3>1, <3>2, <3>3 DEF IsPart
  <2> QED
    BY <2>1
<1>13. /\ permit' = <<>> /\ pending' = <<>> /\ ~home'.stale /\ home'.stage = "Loading"
       /\ Unique(home') /\ Listing(home') \subseteq OnDisk'
       /\ home'.ticket = 0 => Listing(home') = {}
  BY <1>6, <1>7, <1>9, <1>10 DEF StreamInv
<1>14. ASSUME NEW i \in 1..Len(queue')
       PROVE  queue'[i].op = IF reading' = Idle /\ i = Len(queue') THEN "Done" ELSE "Part"
  <2>1. i \in 1..n-1 /\ (i = Len(queue') <=> i + 1 = n)
    BY <1>1
  <2>2. i + 1 \in 1..n /\ queue'[i] = queue[i + 1]
    BY <1>1, <2>1
  <2>3. queue[i + 1].op = IF reading = Idle /\ i + 1 = n THEN "Done" ELSE "Part"
    BY <2>2 DEF StreamInv, n
  <2> QED
    BY <2>1, <2>2, <2>3
<1>15. ASSUME NEW i, IsPart(queue', i), queue'[i].files = <<>>
       PROVE  i = 1 /\ home'.ticket = 0
  <2> DEFINE a == i + 1
  <2>1. IsPart(queue, a) /\ a # 1 /\ queue[a].files = <<>>
    BY <1>11, <1>15
  <2> HIDE DEF a
  <2> QED
    BY <2>1 DEF StreamInv
<1>16. ASSUME NEW i, IsPart(queue', i)
       PROVE  /\ Single(queue'[i].files) /\ ToSet(queue'[i].files) \subseteq OnDisk'
              /\ Keys(queue'[i].files) \cap (AllKeys(home') \cup Left') = {}
  <2>1. IsPart(queue, i + 1) /\ i + 1 # 1 /\ queue'[i] = queue[i + 1]
    BY <1>11, <1>16
  <2>2. Keys(queue[i + 1].files) \cap Keys(h.files) = {}
    BY <1>3, <2>1 DEF StreamInv
  <2>3. /\ Single(queue[i + 1].files) /\ ToSet(queue[i + 1].files) \subseteq OnDisk
        /\ Keys(queue[i + 1].files) \cap (AllKeys(home) \cup Left) = {}
    BY <2>1 DEF StreamInv
  <2> QED
    BY <1>8, <1>9, <2>1, <2>2, <2>3
<1>17. ASSUME NEW i, NEW j, IsPart(queue', i), IsPart(queue', j), i # j
       PROVE  Keys(queue'[i].files) \cap Keys(queue'[j].files) = {}
  <2>1. /\ IsPart(queue, i + 1) /\ queue'[i] = queue[i + 1] /\ i \in 1..n-1
        /\ IsPart(queue, j + 1) /\ queue'[j] = queue[j + 1] /\ j \in 1..n-1
    BY <1>11, <1>17
  <2> DEFINE a == i + 1
             b == j + 1
  <2>2. a # b
    BY <1>17, <2>1
  <2>3. IsPart(queue, a) /\ IsPart(queue, b)
    BY <2>1
  <2> HIDE DEF a, b
  <2>4. Keys(queue[a].files) \cap Keys(queue[b].files) = {}
    BY <2>2, <2>3 DEF StreamInv
  <2> QED
    BY <2>1, <2>4 DEF a, b
<1>18. Left' \subseteq Present' \ AllKeys(home')
  BY <1>6, <1>8, <1>9 DEF StreamInv
<1>19. reading' # Idle => IsInjective(reading'.left)
  BY DEF StreamInv
<1>20. ASSUME NEW x \in Present'
       PROVE  x \in AllKeys(home') \cup Left' \/ \E i : IsPart(queue', i) /\ x \in Keys(queue'[i].files)
  <2>1. x \in AllKeys(home) \cup Left \/ \E i : IsPart(queue, i) /\ x \in Keys(queue[i].files)
    BY <1>9 DEF StreamInv
  <2>2. CASE x \in AllKeys(home) \cup Left
    BY <1>8, <1>9, <2>2
  <2>3. CASE \E i : IsPart(queue, i) /\ x \in Keys(queue[i].files)
    <3>1. PICK i : IsPart(queue, i) /\ x \in Keys(queue[i].files)
      BY <2>3
    <3>2. CASE i = 1
      BY <1>3, <1>8, <3>1, <3>2
    <3>3. CASE i # 1
      <4>1. IsPart(queue', i - 1) /\ queue'[i - 1] = queue[i]
        BY <1>12, <3>1, <3>3
      <4>2. x \in Keys(queue'[i - 1].files)
        BY <3>1, <4>1, ZenonT(60)
      <4> QED
        BY <4>1, <4>2
    <3> QED
      BY <3>2, <3>3
  <2> QED
    BY <2>1, <2>2, <2>3
<1> QED
  BY <1>13, <1>14, <1>15, <1>16, <1>17, <1>18, <1>19, <1>20 DEF StreamInv

(* until it is all there. *)
LEMMA StreamDone ==
  ASSUME TabInv, StreamInv, queue # <<>>, Head(queue).op = "Done", queue' = Tail(queue),
         UNCHANGED disk, Streams(Head(queue), home')
  PROVE  PatchInv'
<1>1. /\ Len(queue) \in Nat \ {0} /\ Len(queue') = Len(queue) - 1 /\ Head(queue) = queue[1]
      /\ 1 \in 1..Len(queue) /\ queue' \in Seq(AnyEvent)
  BY HomeFacts, Taken
<1>2. reading = Idle /\ 1 = Len(queue)
  BY <1>1 DEF StreamInv
<1>3. Len(queue') = 0
  BY <1>1, <1>2
<1>4. Left = {} /\ \A i : ~IsPart(queue, i)
  <2>1. ASSUME NEW i, IsPart(queue, i) PROVE FALSE
    BY <1>1, <1>2, <2>1 DEF IsPart
  <2> QED
    BY <1>2, <2>1 DEF Left
<1>5. Listing(home') = Listing(home) /\ Unique(home')
  BY DEF Streams, StreamInv
<1>6. Listing(home) = OnDisk
  <2>1. home \in Folder
    BY HomeFacts
  <2>2. ASSUME NEW x \in OnDisk PROVE x \in Listing(home)
    <3>1. PICK k \in Present : x = File(k, disk[k])
      BY DEF OnDisk
    <3>2. k \in AllKeys(home)
      BY <1>4 DEF StreamInv
    <3>3. PICK y \in Listing(home) : y.key = k
      BY <2>1, <3>2, ListingKeys
    <3>4. y \in OnDisk
      BY DEF StreamInv
    <3>5. y = File(k, disk[k])
      BY <3>3, <3>4 DEF OnDisk, File
    <3> QED
      BY <3>1, <3>3, <3>5
  <2> QED
    BY <2>2 DEF StreamInv
<1>7. OnDisk' = Listing(home')
  BY <1>5, <1>6 DEF OnDisk, Present
<1>8. \A k : At(Listing(home'), k) = Here(k)'
  BY <1>7 DEF Here
<1>9. Reloads(queue', home')
  BY <1>3, <1>5, SMTT(60) DEF Reloads, LastOf
<1>10. \A k : Follows(queue', Listing(home'), k, Here(k)')
  BY <1>3, <1>8 DEF Follows, LastOf
<1> QED
  BY <1>9, <1>10 DEF PatchInv

(* Sequences are joined in any order. *)
LEMMA JoinedTwice ==
  ASSUME NEW S, NEW q \in Seq(S), NEW m \in Seq(S), NEW r \in Seq(S)
  PROVE  (q \o m) \o r = q \o (m \o r)
<1> DEFINE a == (q \o m) \o r
           b == q \o (m \o r)
<1>1. /\ a \in Seq(S) /\ b \in Seq(S) /\ Len(a) = Len(q) + Len(m) + Len(r)
      /\ Len(b) = Len(q) + Len(m) + Len(r) /\ Len(q) \in Nat /\ Len(m) \in Nat /\ Len(r) \in Nat
      /\ Len(q \o m) = Len(q) + Len(m)
  <2>1. q \o m \in Seq(S) /\ m \o r \in Seq(S)
    BY Queued
  <2>2. /\ Len(q \o m) = Len(q) + Len(m) /\ Len(m \o r) = Len(m) + Len(r)
        /\ Len(q) \in Nat /\ Len(m) \in Nat /\ Len(r) \in Nat
    BY Queued
  <2>3. a \in Seq(S) /\ b \in Seq(S) /\ Len(a) = Len(q \o m) + Len(r) /\ Len(b) = Len(q) + Len(m \o r)
    BY <2>1, Queued
  <2> HIDE DEF a, b
  <2> QED
    BY <2>2, <2>3
<1>2. \A i \in 1..Len(q) + Len(m) + Len(r) : a[i] = b[i]
  BY SMTT(60)
<1> HIDE DEF a, b
<1>3. a = b
  <2>1. DOMAIN a = 1..Len(a) /\ DOMAIN b = 1..Len(b)
    BY <1>1
  <2>2. a = [i \in DOMAIN a |-> a[i]] /\ b = [i \in DOMAIN b |-> b[i]]
    BY <1>1
  <2>3. DOMAIN a = 1..Len(q) + Len(m) + Len(r) /\ DOMAIN b = 1..Len(q) + Len(m) + Len(r)
    BY <1>1, <2>1
  <2> QED
    BY <1>2, <2>2, <2>3
<1> QED
  BY <1>3 DEF a, b

(* Events that bring what is on disk. *)
Timely ==
  {e \in AnyEvent : \/ e.op = "Self"
                    \/ e.op = "Delete" /\ \A k \in e.keys : disk[k] = Absent
                    \/ /\ e.op = "Upsert"
                       /\ \A k \in DOMAIN e.files : /\ k \in Present
                                                    /\ e.files[k] = File(k, disk[k])}

(* What is there is one file. *)
LEMMA HereIs ==
  ASSUME NEW k \in Names
  PROVE  Here(k) = IF disk[k] = Absent THEN {} ELSE {File(k, disk[k])}
<1>1. \A x \in OnDisk : \E n \in Present : x = File(n, disk[n]) /\ x.key = n
  BY DEF OnDisk, File
<1>2. CASE disk[k] = Absent
  <2>1. k \notin Present
    BY <1>2 DEF Present
  <2> QED
    BY <1>1, <1>2, <2>1 DEF Here, At
<1>3. CASE disk[k] # Absent
  <2>1. k \in Present
    BY <1>3 DEF Present
  <2>2. File(k, disk[k]) \in OnDisk /\ File(k, disk[k]).key = k
    BY <2>1 DEF OnDisk, File
  <2>3. \A x \in OnDisk : x.key = k => x = File(k, disk[k])
    BY <1>1
  <2>4. At(OnDisk, k) = {File(k, disk[k])}
    BY <2>2, <2>3 DEF At
  <2> QED
    BY <1>3, <2>4 DEF Here
<1> QED
  BY <1>2, <1>3

(* They are no readings, reveal nothing and are right for all they touch. *)
LEMMA TimelyRights ==
  ASSUME NEW e \in Timely
  PROVE  /\ e \in Ordinary /\ e \notin LoadEvents /\ e.op # "Reveal"
         /\ \A k \in Names : e \in Disturbing(k) => e \in Righting(k, Here(k))
<1>1. e \in AnyEvent /\ e.op \in {"Self", "Delete", "Upsert"}
  BY DEF Timely
<1>2. e.op = "Upsert" => \A k \in DOMAIN e.files : e.files[k].key = k /\ k \in Present /\ k \in Names
                                                    /\ e.files[k] = File(k, disk[k])
  BY DEF Timely, File, Present
<1>3. e \in Ordinary
  BY <1>1, <1>2 DEF Ordinary, Distinct
<1>4. e \notin LoadEvents /\ e.op # "Reveal"
  BY <1>1 DEF LoadEvents, Loads
<1>5. ASSUME NEW k \in Names, e \in Disturbing(k)
      PROVE  e \in Righting(k, Here(k))
  <2>1. CASE e.op = "Delete"
    <3>1. k \in e.keys
      BY <1>5, <2>1 DEF Disturbing, Loads
    <3>2. disk[k] = Absent
      BY <2>1, <3>1 DEF Timely
    <3>3. Here(k) = {}
      BY <3>2, HereIs
    <3> QED
      BY <1>1, <2>1, <3>3 DEF Righting
  <2>2. CASE e.op = "Upsert"
    <3>1. Touches(e.files, k)
      BY <1>5, <2>2 DEF Disturbing, Loads
    <3>2. k \in DOMAIN e.files
      BY <1>2, <2>2, <3>1 DEF Touches
    <3>3. disk[k] # Absent /\ e.files[k] = File(k, disk[k])
      BY <1>2, <2>2, <3>2 DEF Present
    <3>4. Here(k) = {e.files[k]}
      BY <3>3, HereIs
    <3> QED
      BY <1>1, <1>2, <2>2, <3>2, <3>4 DEF Righting
  <2>3. CASE e.op = "Self"
    BY <1>5, <2>3 DEF Disturbing, Loads
  <2> QED
    BY <1>1, <2>1, <2>2, <2>3
<1> QED
  BY <1>3, <1>4, <1>5

(* The operations that the watcher makes. *)
LEMMA PatchesTimely ==
  ASSUME TabInv, NEW urls \in SUBSET Names
  PROVE  LET p == Patches(urls) IN
         /\ p \in Seq(Timely)
         /\ \A k \in urls : \E i \in 1..Len(p) : p[i] \in Disturbing(k)
<1> DEFINE gone == {n \in urls : disk[n] = Absent}
           there == urls \ gone
           files == [n \in there |-> File(n, disk[n])]
           d == [op |-> "Delete", keys |-> gone]
           u == [op |-> "Upsert", files |-> files]
           s == IF gone = {} THEN <<>> ELSE <<d>>
           t == IF there = {} THEN <<>> ELSE <<u>>
           p == Patches(urls)
<1>1. gone \in SUBSET Names /\ there \in SUBSET Present /\ there \in SUBSET Names
  BY DEF Present
<1>2. files \in [there -> Files]
  <2>1. \A n \in there : n \in Names /\ disk[n] # Absent
    OBVIOUS
  <2>2. \A n \in there : File(n, disk[n]) \in Files
    BY <2>1, DiskStats DEF TabInv
  <2> HIDE DEF there
  <2> QED
    BY <2>2
<1>3. p = s \o t
  BY DEF Patches
<1>4. DOMAIN files = there /\ \A n \in there : files[n] = File(n, disk[n])
  OBVIOUS
<1>5. \A k \in gone : disk[k] = Absent
  OBVIOUS
<1>6. \A k \in urls : k \in gone \/ k \in there
  OBVIOUS
<1> HIDE DEF gone, there, files
<1>7. d \in AnyEvent /\ u \in AnyEvent
  BY <1>1, <1>2, NewEvents
<1>8. d \in Timely
  BY <1>5, <1>7 DEF Timely
<1>9. u \in Timely
  BY <1>1, <1>4, <1>7 DEF Timely
<1>10. \A k \in gone : d \in Disturbing(k)
  BY <1>7 DEF Disturbing
<1>11. \A k \in there : u \in Disturbing(k)
  BY <1>4, <1>7 DEF Disturbing, Touches
<1> HIDE DEF d, u
<1>12. /\ s \in Seq(Timely) /\ (gone # {} => Len(s) = 1 /\ s[1] = d)
       /\ t \in Seq(Timely) /\ (there # {} => Len(t) = 1 /\ t[1] = u)
  <2>1. <<>> \in Seq(Timely) /\ <<d>> \in Seq(Timely) /\ <<u>> \in Seq(Timely)
    BY <1>8, <1>9, SMTT(60)
  <2>2. Len(<<d>>) = 1 /\ <<d>>[1] = d /\ Len(<<u>>) = 1 /\ <<u>>[1] = u
    BY SMTT(60)
  <2> QED
    BY <2>1, <2>2
<1> HIDE DEF s, t, p
<1>13. /\ p \in Seq(Timely) /\ Len(p) = Len(s) + Len(t) /\ Len(s) \in Nat /\ Len(t) \in Nat
       /\ \A i \in 1..Len(s) : p[i] = s[i]
       /\ \A i \in 1..Len(t) : p[Len(s) + i] = t[i]
  BY <1>3, <1>12, Queued
<1>14. ASSUME NEW k \in urls
       PROVE  \E i \in 1..Len(p) : p[i] \in Disturbing(k)
  <2>1. CASE k \in gone
    <3>1. Len(s) = 1 /\ s[1] = d /\ 1 \in 1..Len(s)
      BY <1>12, <2>1
    <3>2. 1 \in 1..Len(p) /\ p[1] = d
      BY <1>13, <3>1
    <3> QED
      BY <1>10, <2>1, <3>2
  <2>2. CASE k \in there
    <3>1. Len(t) = 1 /\ t[1] = u /\ 1 \in 1..Len(t)
      BY <1>12, <2>2
    <3>2. Len(s) + 1 \in 1..Len(p) /\ p[Len(s) + 1] = u
      BY <1>13, <3>1
    <3> QED
      BY <1>11, <2>2, <3>2
  <2> QED
    BY <1>6, <2>1, <2>2
<1>15. p \in Seq(Timely) /\ \A k \in urls : \E i \in 1..Len(p) : p[i] \in Disturbing(k)
  BY <1>13, <1>14
<1> QED
  BY <1>15 DEF p

(* What comes to the queue is right for all that is not pending, *)
LEMMA PatchQueued ==
  ASSUME TabInv, PatchInv, NEW m \in Seq(AnyEvent), queue' = queue \o m, home' = home,
         \A i \in 1..Len(m) : m[i] \notin LoadEvents,
         \A k \in Names \ ToSet(pending') :
           /\ \A i \in 1..Len(m) : m[i] \in Disturbing(k) => m[i] \in Righting(k, Here(k)')
           /\ NoneOf(m, Disturbing(k)) => k \notin ToSet(pending) /\ Here(k)' = Here(k)
  PROVE  PatchInv'
<1>1. queue \in Seq(AnyEvent)
  BY HomeFacts
<1>3. Reloads(queue', home')
  <2>1. LastOf(queue \o m, LoadEvents, WholeEvents)
    <3>1. LastOf(queue, LoadEvents, WholeEvents)
      BY DEF PatchInv, Reloads
    <3> QED
      BY <1>1, <3>1, LastQueued
  <2>2. NoneOf(queue \o m, LoadEvents) => NoneOf(queue, LoadEvents)
    BY <1>1, NoneQueued
  <2> QED
    BY <2>1, <2>2 DEF PatchInv, Reloads
<1>4. ASSUME NEW k \in Names \ ToSet(pending')
      PROVE  Follows(queue', Listing(home'), k, Here(k)')
  <2>1. \A i \in 1..Len(m) : m[i] \in Disturbing(k) => m[i] \in Righting(k, Here(k)')
    BY <1>4
  <2>2. NoneOf(m, Disturbing(k)) => Follows(queue, Listing(home), k, Here(k)')
    BY <1>4 DEF PatchInv
  <2> DEFINE H == Here(k)'
  <2> HIDE DEF H
  <2>3. /\ \A i \in 1..Len(m) : m[i] \in Disturbing(k) => m[i] \in Righting(k, H)
        /\ NoneOf(m, Disturbing(k)) => Follows(queue, Listing(home), k, H)
    BY <2>1, <2>2 DEF H
  <2>4. Follows(queue \o m, Listing(home), k, H)
    BY <1>1, <2>3, FollowsQueued
  <2> QED
    BY <2>4 DEF H
<1> QED
  BY <1>3, <1>4 DEF PatchInv

(* and what is taken from it reaches the folder. *)
LEMMA PatchTaken ==
  ASSUME TabInv, PatchInv, queue # <<>>, queue' = Tail(queue), UNCHANGED <<disk, pending>>,
         NEW f, Brings(Head(queue), home, f), Listing(home') = Listing(f), Unique(f) => Unique(home')
  PROVE  PatchInv'
<1>1. queue \in Seq(AnyEvent)
  BY HomeFacts
<1>2. Reloads(queue, home)
  BY DEF PatchInv
<1>3. Reloads(queue', home')
  <2>1. Reloads(queue', f)
    BY <1>1, <1>2, ReloadsTaken
  <2> QED
    BY <2>1 DEF Reloads
<1>4. ASSUME NEW k \in Names \ ToSet(pending')
      PROVE  Follows(queue', Listing(home'), k, Here(k)')
  <2>1. Follows(queue, Listing(home), k, Here(k))
    BY <1>4 DEF PatchInv
  <2>2. Follows(queue', Listing(f), k, Here(k))
    BY <1>1, <1>2, <2>1, FollowsTaken
  <2>3. Here(k)' = Here(k)
    BY DEF Here, OnDisk, Present
  <2> QED
    BY <2>2, <2>3
<1> QED
  BY <1>3, <1>4 DEF PatchInv

(* What the watcher queues. *)
LEMMA WatchBrings ==
  ASSUME TabInv, NEW k \in 1..Len(pending), Watch(k)
  PROVE  /\ ToSet(pending') \subseteq ToSet(pending)
         /\ \E m \in Seq(Timely) :
              /\ queue' = queue \o m
              /\ Home \in ToSet(pending) => Home \in ToSet(pending') \/ \E i \in 1..Len(m) : m[i].op = "Self"
              /\ \A n \in Names \ ToSet(pending') :
                   NoneOf(m, Disturbing(n)) => n \notin ToSet(pending)
<1> DEFINE front == SubSeq(pending, 1, k)
           back  == SubSeq(pending, k + 1, Len(pending))
           urls == ToSet(front)
           patches == Patches(urls \ {Home})
           e == [op |-> "Self"]
           self == IF Home \in urls THEN <<e>> ELSE <<>>
<1>1. pending \in Seq(Names \cup {Home}) /\ queue \in Seq(AnyEvent)
  BY DEF TabInv, DataOK
<1>2. /\ pending' = back
      /\ queue' = queue \o patches \o self \/ queue' = queue \o self \o patches
  BY DEF Watch
<1>3. k \in Nat /\ Len(pending) \in Nat /\ k >= 1 /\ k <= Len(pending)
  BY <1>1
<1>4. front \o back = pending /\ front \in Seq(Names \cup {Home}) /\ back \in Seq(Names \cup {Home})
  <2> DEFINE S == Names \cup {Home}
  <2> HIDE DEF S
  <2>1. pending \in Seq(S)
    BY <1>1 DEF S
  <2>2. front \in Seq(S) /\ back \in Seq(S)
    BY <1>3, <2>1, SMTT(60)
  <2>3. front \o back = pending
    BY <1>3, <2>1, SMTT(60)
  <2> QED
    BY <2>2, <2>3 DEF S
<1> HIDE DEF front, back
<1>5. ToSet(pending) = ToSet(front) \cup ToSet(back) /\ ToSet(front) \subseteq Names \cup {Home}
  <2>1. /\ Len(pending) = Len(front) + Len(back) /\ Len(front) \in Nat /\ Len(back) \in Nat
        /\ \A i \in 1..Len(front) : pending[i] = front[i] /\ front[i] \in Names \cup {Home}
        /\ \A i \in 1..Len(back) : pending[Len(front) + i] = back[i]
        /\ \A i \in 1..Len(pending) : i \in 1..Len(front)
             \/ (i - Len(front) \in 1..Len(back) /\ pending[i] = back[i - Len(front)])
    BY <1>4, Queued
  <2>2. /\ ToSet(pending) = {pending[i] : i \in 1..Len(pending)}
        /\ ToSet(front) = {front[i] : i \in 1..Len(front)}
        /\ ToSet(back) = {back[i] : i \in 1..Len(back)}
    BY <1>1, <1>4 DEF ToSet
  <2>3. \A i \in 1..Len(front) : i \in 1..Len(pending)
    BY <2>1
  <2>4. \A i \in 1..Len(back) : Len(front) + i \in 1..Len(pending)
    BY <2>1
  <2>5. ToSet(front) \subseteq ToSet(pending)
    BY <2>1, <2>2, <2>3
  <2>6. ToSet(back) \subseteq ToSet(pending)
    BY <2>1, <2>2, <2>4
  <2>7. ToSet(pending) \subseteq ToSet(front) \cup ToSet(back)
    BY <2>1, <2>2, SMTT(60)
  <2>8. ToSet(front) \subseteq Names \cup {Home}
    BY <2>1, <2>2
  <2> QED
    BY <2>5, <2>6, <2>7, <2>8
<1>6. /\ patches \in Seq(Timely)
      /\ \A n \in urls \ {Home} : \E i \in 1..Len(patches) : patches[i] \in Disturbing(n)
  BY <1>5, PatchesTimely
<1>7. e \in Timely /\ e.op = "Self"
  BY NewEvents DEF Timely
<1> HIDE DEF e
<1>8. self \in Seq(Timely) /\ (Home \in urls => 1 \in 1..Len(self) /\ self[1] = e)
  <2>1. <<>> \in Seq(Timely) /\ <<e>> \in Seq(Timely) /\ 1 \in 1..Len(<<e>>) /\ <<e>>[1] = e
    BY <1>7, SMTT(60)
  <2> QED
    BY <2>1
<1> HIDE DEF patches, self
<1>9. ASSUME NEW a \in Seq(Timely), NEW b \in Seq(Timely), queue' = queue \o a \o b,
             \/ a = patches /\ b = self
             \/ a = self /\ b = patches
      PROVE  \E m \in Seq(Timely) :
               /\ queue' = queue \o m
               /\ Home \in ToSet(pending) => Home \in ToSet(pending') \/ \E i \in 1..Len(m) : m[i].op = "Self"
               /\ \A n \in Names \ ToSet(pending') :
                    NoneOf(m, Disturbing(n)) => n \notin ToSet(pending)
  <2> DEFINE m == a \o b
  <2>1. m \in Seq(Timely) /\ \A i \in 1..Len(a) : i \in 1..Len(m) /\ m[i] = a[i]
    BY <1>9, Queued, SMTT(60)
  <2>2. \A i \in 1..Len(b) : Len(a) + i \in 1..Len(m) /\ m[Len(a) + i] = b[i]
    BY <1>9, Queued, SMTT(60)
  <2>3. queue' = queue \o m
    <3>1. Timely \subseteq AnyEvent
      BY DEF Timely
    <3>2. a \in Seq(AnyEvent) /\ b \in Seq(AnyEvent)
      BY <3>1, <1>9
    <3>3. (queue \o a) \o b = queue \o (a \o b)
      <4>1. queue \in Seq(AnyEvent)
        BY <1>1
      <4> QED
        BY <3>2, <4>1, JoinedTwice, SMTT(60)
    <3> QED
      BY <1>9, <3>3
  <2> HIDE DEF m
  <2>4. \A x : (\E i \in 1..Len(self) : self[i] = x) \/ (\E i \in 1..Len(patches) : patches[i] = x)
               => \E i \in 1..Len(m) : m[i] = x
    BY <1>9, <2>1, <2>2
  <2>5. Home \in urls => \E i \in 1..Len(m) : m[i].op = "Self"
    <3>1. Home \in urls => 1 \in 1..Len(self) /\ self[1] = e
      BY <1>8
    <3>2. (\E i \in 1..Len(self) : self[i] = e) => \E i \in 1..Len(m) : m[i] = e
      BY <2>4
    <3> QED
      BY <1>7, <3>1, <3>2
  <2>6. ASSUME NEW n \in Names \ ToSet(pending'), NoneOf(m, Disturbing(n))
        PROVE  n \notin ToSet(pending)
    <3>1. n # Home
      BY TabAssumption
    <3>2. \A i \in 1..Len(patches) : patches[i] \notin Disturbing(n)
      BY <2>4, <2>6 DEF NoneOf
    <3>3. n \notin urls
      BY <1>6, <3>1, <3>2
    <3> QED
      BY <1>2, <1>5, <2>6, <3>3
  <2> QED
    BY <1>2, <1>5, <2>1, <2>3, <2>5, <2>6
<1>10. ToSet(pending') \subseteq ToSet(pending)
  BY <1>2, <1>5
<1> QED
  BY <1>2, <1>6, <1>8, <1>9, <1>10

(* What is in a sequence, *)
LEMMA ElementsOf ==
  ASSUME NEW S, NEW s \in Seq(S)
  PROVE  ToSet(s) = {s[i] : i \in 1..Len(s)}
<1>1. DOMAIN s = 1..Len(s)
  OBVIOUS
<1> QED
  BY <1>1 DEF ToSet

(* and in two, is in both together. *)
LEMMA JoinedSet ==
  ASSUME NEW S, NEW q \in Seq(S), NEW m \in Seq(S)
  PROVE  /\ ToSet(q \o m) = ToSet(q) \cup ToSet(m)
         /\ ToSet(q) = {q[i] : i \in 1..Len(q)} /\ ToSet(m) = {m[i] : i \in 1..Len(m)}
         /\ ToSet(q \o m) = {(q \o m)[i] : i \in 1..Len(q \o m)}
         /\ q # <<>> => q \o m # <<>> /\ Head(q \o m) = Head(q)
<1> DEFINE r == q \o m
<1>1. /\ r \in Seq(S) /\ Len(r) = Len(q) + Len(m) /\ Len(q) \in Nat /\ Len(m) \in Nat
      /\ \A i \in 1..Len(q) : r[i] = q[i]
      /\ \A i \in 1..Len(m) : r[Len(q) + i] = m[i]
      /\ \A i \in 1..Len(r) : i \in 1..Len(q) \/ (i - Len(q) \in 1..Len(m) /\ r[i] = m[i - Len(q)])
  BY Queued
<1>2. /\ ToSet(r) = {r[i] : i \in 1..Len(r)}
      /\ ToSet(q) = {q[i] : i \in 1..Len(q)}
      /\ ToSet(m) = {m[i] : i \in 1..Len(m)}
  <2> HIDE DEF r
  <2>1. DOMAIN r = 1..Len(r) /\ DOMAIN q = 1..Len(q) /\ DOMAIN m = 1..Len(m)
    BY <1>1
  <2> QED
    BY <2>1, Zenon DEF ToSet
<1>3. q # <<>> => r # <<>> /\ Head(r) = Head(q)
  <2>1. q # <<>> => Head(q) = q[1] /\ 1 \in 1..Len(q)
    BY Taken
  <2>2. r # <<>> => Head(r) = r[1]
    BY <1>1, Taken
  <2>3. Len(q) > 0 => Len(r) > 0
    BY <1>1
  <2>4. r = <<>> => Len(r) = 0
    OBVIOUS
  <2> HIDE DEF r
  <2> QED
    BY <1>1, <2>1, <2>2, <2>3, <2>4
<1> HIDE DEF r
<1>4. ToSet(q) \subseteq ToSet(r)
  <2>1. \A i \in 1..Len(q) : i \in 1..Len(r)
    BY <1>1
  <2> QED
    BY <1>1, <1>2, <2>1
<1>5. ToSet(m) \subseteq ToSet(r)
  <2>1. \A i \in 1..Len(m) : Len(q) + i \in 1..Len(r)
    BY <1>1
  <2> QED
    BY <1>1, <1>2, <2>1
<1>6. ToSet(r) \subseteq ToSet(q) \cup ToSet(m)
  BY <1>1, <1>2
<1>7. ToSet(r) = ToSet(q) \cup ToSet(m)
  BY <1>4, <1>5, <1>6
<1> QED
  BY <1>2, <1>3, <1>7 DEF r

(* Whether a reading is queued. *)
LEMMA Ways ==
  ASSUME NEW q \in Seq(AnyEvent)
  PROVE  (\E i \in DOMAIN q : q[i].op \in Loads) <=> ~NoneOf(q, LoadEvents)
<1>1. DOMAIN q = 1..Len(q) /\ \A i \in 1..Len(q) : q[i] \in AnyEvent
  OBVIOUS
<1> QED
  BY <1>1 DEF NoneOf, LoadEvents

(* What comes to the queue leaves the folder, its stage and what is to be *)
(* revealed in order. *)
LEMMA QueueGrows ==
  ASSUME TabInv, SyncInv, NEW m \in Seq(Ordinary), queue' = queue \o m, Announces(m),
         UNCHANGED <<home, pref>>,
         \/ reading' = reading \/ reading' # Idle
         \/ \E i \in 1..Len(m) : m[i].op \in {"Full", "Done"}
  PROVE  /\ Shows' /\ queue' \in Seq(Ordinary) /\ Revealing(queue', home') /\ Stages'
         /\ (\E i \in 1..Len(queue) : queue[i].op = "Self") => \E i \in 1..Len(queue') : queue'[i].op = "Self"
         /\ (\E i \in 1..Len(m) : m[i].op = "Self") => \E i \in 1..Len(queue') : queue'[i].op = "Self"
<1>1. queue \in Seq(Ordinary) /\ queue \in Seq(AnyEvent) /\ m \in Seq(AnyEvent)
  <2>1. Ordinary \subseteq AnyEvent
    BY DEF Ordinary
  <2> QED
    BY <2>1, HomeFacts DEF SyncInv
<1>2. queue' \in Seq(Ordinary)
  BY <1>1, Queued
<1>3. Revealing(queue', home')
  BY <1>1, RevealingQueued DEF SyncInv
<1>4. /\ ToSet(queue') = ToSet(queue) \cup ToSet(m)
      /\ ToSet(queue) = {queue[i] : i \in 1..Len(queue)} /\ ToSet(m) = {m[i] : i \in 1..Len(m)}
      /\ ToSet(queue') = {queue'[i] : i \in 1..Len(queue')}
      /\ queue # <<>> => queue' # <<>> /\ Head(queue') = Head(queue)
  BY <1>1, JoinedSet, SMTT(60)
<1>5. Shows'
  BY DEF SyncInv, Shows
<1>6. \A x : x \in ToSet(queue) \/ x \in ToSet(m) => \E i \in 1..Len(queue') : queue'[i] = x
  BY <1>4
<1>7. /\ \A i \in 1..Len(queue) : \E j \in 1..Len(queue') : queue'[j] = queue[i]
      /\ \A i \in 1..Len(m) : \E j \in 1..Len(queue') : queue'[j] = m[i]
  BY <1>4, <1>6
<1>8. Stages'
  <2>1. home'.ticket = 0 => queue' # <<>> /\ Head(queue').op = "Part" /\ Head(queue').files = <<>>
    BY <1>4 DEF SyncInv, Stages
  <2>2. /\ home'.stage = "Loaded" => home'.ticket >= 1
        /\ home'.stage = "Loading" => home'.ticket \in {0, 1}
    BY DEF SyncInv, Stages
  <2>3. ASSUME home'.stage = "Loading"
        PROVE  reading' # Idle \/ \E i \in 1..Len(queue') : queue'[i].op \in {"Full", "Done"}
    <3>1. reading # Idle \/ \E i \in 1..Len(queue) : queue[i].op \in {"Full", "Done"}
      BY <2>3 DEF SyncInv, Stages
    <3> QED
      BY <1>7, <3>1
  <2> QED
    BY <2>1, <2>2, <2>3 DEF Stages
<1> QED
  BY <1>2, <1>3, <1>5, <1>7, <1>8, ZenonT(60)

(* What is there is what was if the disk keeps it. *)
LEMMA HereKept ==
  ASSUME NEW k \in Names, disk'[k] = disk[k]
  PROVE  Here(k)' = Here(k)
<1>1. k \in Present' <=> k \in Present
  BY DEF Present
<1>4. Here(k) = {File(n, disk[n]) : n \in {n \in Present : n = k}}
  BY DEF Here, At, OnDisk, File
<1>5. Here(k)' = {File(n, disk'[n]) : n \in {n \in Present' : n = k}}
  BY DEF Here, At, OnDisk, File
<1> QED
  BY <1>1, <1>4, <1>5

(* What a change of the disk, to the files K, does. *)
Reports(K) ==
  /\ ToSet(pending) \cup K \cup {Home} \subseteq ToSet(pending')
  /\ \A k \in Names \ K : disk'[k] = disk[k]
  /\ torn' = (torn \/ OnItsWay)
  /\ UNCHANGED <<reading, reads, home, pref>>
  /\ permit' = permit \/ (permit'[1] \in K /\ permit'[2] \in K)
  /\ queue' = queue \/ \E n \in K : queue' = Append(queue, [op |-> "Delete", keys |-> {n}])

(* A change is of one file, *)
LEMMA ChangeReports ==
  ASSUME TabInv, NEW n \in Names, NEW stat, Change(n, stat)
  PROVE  /\ ToSet(pending) \cup {n} \cup {Home} \subseteq ToSet(pending')
         /\ \A k \in Names \ {n} : disk'[k] = disk[k]
         /\ torn' = (torn \/ OnItsWay)
<1> DEFINE S == Names \cup {Home}
           more == <<n, Home>>
<1>1. pending \in Seq(S) /\ more \in Seq(S) /\ Len(more) = 2 /\ more[1] = n /\ more[2] = Home
  BY DEF TabInv, DataOK
<1>2. pending' = pending \o more /\ disk' = [disk EXCEPT ![n] = stat] /\ torn' = (torn \/ OnItsWay)
  BY DEF Change
<1> HIDE DEF S, more
<1>3. ToSet(pending') = ToSet(pending) \cup ToSet(more) /\ ToSet(more) = {more[i] : i \in 1..Len(more)}
  BY <1>1, <1>2, JoinedSet, SMTT(60)
<1>4. n \in ToSet(more) /\ Home \in ToSet(more)
  BY <1>1, <1>3
<1>5. disk \in [Names -> {Absent} \cup 1..MaxChanges + 1]
  BY DEF TabInv, DataOK
<1> QED
  BY <1>2, <1>3, <1>4, <1>5

(* or a renaming is of two. *)
LEMMA ShiftReports ==
  ASSUME TabInv, NEW old \in Names, NEW new \in Names, Shift(old, new)
  PROVE  /\ ToSet(pending) \cup {old, new} \cup {Home} \subseteq ToSet(pending')
         /\ \A k \in Names \ {old, new} : disk'[k] = disk[k]
         /\ torn' = (torn \/ OnItsWay)
<1> DEFINE S == Names \cup {Home}
           more == <<old, Home, new, Home>>
<1>1. /\ pending \in Seq(S) /\ more \in Seq(S) /\ Len(more) = 4
      /\ more[1] = old /\ more[2] = Home /\ more[3] = new
  BY DEF TabInv, DataOK
<1>2. /\ pending' = pending \o more /\ torn' = (torn \/ OnItsWay)
      /\ disk' = [disk EXCEPT ![old] = Absent, ![new] = changes + 2]
  BY DEF Shift
<1> HIDE DEF S, more
<1>3. ToSet(pending') = ToSet(pending) \cup ToSet(more) /\ ToSet(more) = {more[i] : i \in 1..Len(more)}
  <2>1. ToSet(pending \o more) = ToSet(pending) \cup ToSet(more)
    BY <1>1, JoinedSet
  <2>2. ToSet(more) = {more[i] : i \in 1..Len(more)}
    BY <1>1, ElementsOf, Zenon
  <2> QED
    BY <1>2, <2>1, <2>2
<1>4. old \in ToSet(more) /\ new \in ToSet(more) /\ Home \in ToSet(more)
  BY <1>1, <1>3
<1>5. disk \in [Names -> {Absent} \cup 1..MaxChanges + 1]
  BY DEF TabInv, DataOK
<1> QED
  BY <1>2, <1>3, <1>4, <1>5

(* So is every change of Home, by the user or by others. *)
LEMMA DiskReports ==
  ASSUME TabInv,
         Others \/ (\E n \in Names : CreateFile(n)) \/ (\E old, new \in Names : RenameFile(old, new))
  PROVE  \E K \in SUBSET Names : Reports(K)
<1>1. CASE Others
  <2>1. UNCHANGED <<permit, reading, reads, home, pref, queue>>
    BY <1>1 DEF Others, load
  <2>2. CASE \E n \in Names : Touch(n) \/ Vanish(n)
    <3>1. PICK n \in Names : \E stat : Change(n, stat)
      BY <2>2 DEF Touch, Vanish
    <3>2. PICK stat : Change(n, stat)
      BY <3>1
    <3>3. Reports({n})
      BY <2>1, <3>2, ChangeReports DEF Reports
    <3> QED
      BY <3>3
  <2>3. CASE \E old, new \in Names : Shift(old, new)
    <3>1. PICK old \in Names, new \in Names : Shift(old, new)
      BY <2>3
    <3>2. Reports({old, new})
      BY <2>1, <3>1, ShiftReports DEF Reports
    <3> QED
      BY <3>2
  <2> QED
    BY <1>1, <2>2, <2>3 DEF Others
<1>2. ASSUME NEW n \in Names, CreateFile(n)
      PROVE  \E K \in SUBSET Names : Reports(K)
  <2>1. /\ Change(n, changes + 2) /\ permit' = <<n, n>> /\ UNCHANGED <<reading, reads, home, pref>>
        /\ queue' = queue \/ queue' = Append(queue, [op |-> "Delete", keys |-> {n}])
    BY <1>2 DEF CreateFile, Touch, load
  <2>2. Reports({n})
    BY <2>1, ChangeReports DEF Reports
  <2> QED
    BY <2>2
<1>3. ASSUME NEW old \in Names, NEW new \in Names, RenameFile(old, new)
      PROVE  \E K \in SUBSET Names : Reports(K)
  <2>1. /\ Shift(old, new) /\ permit' = <<old, new>> /\ UNCHANGED <<reading, reads, home, pref, queue>>
    BY <1>3 DEF RenameFile, load
  <2>2. Reports({old, new})
    BY <2>1, ShiftReports DEF Reports
  <2> QED
    BY <2>2
<1> QED
  BY <1>1, <1>2, <1>3

(* It keeps the invariant: if a reading is on its way the listing is torn. *)
LEMMA SyncChanges ==
  ASSUME TabInv, SyncInv, NEW K \in SUBSET Names, Reports(K)
  PROVE  SyncInv'
<1>1. PICK m : /\ m \in Seq(Ordinary) /\ queue' = queue \o m /\ Announces(m)
               /\ \A i \in 1..Len(m) : \E n \in K : m[i] = [op |-> "Delete", keys |-> {n}]
  <2>1. CASE queue' = queue
    <3>1. <<>> \in Seq(Ordinary) /\ queue \o <<>> = queue
      <4>1. queue \in Seq(Ordinary)
        BY DEF SyncInv
      <4> QED
        BY <4>1
    <3>2. 1..Len(<<>>) = {} /\ 2..Len(<<>>) = {}
      OBVIOUS
    <3>3. Announces(<<>>)
      BY <3>2 DEF Announces
    <3>4. \A i \in 1..Len(<<>>) : \E n \in K : <<>>[i] = [op |-> "Delete", keys |-> {n}]
      BY <3>2
    <3> QED
      BY <2>1, <3>1, <3>3, <3>4
  <2>2. ASSUME NEW n \in K, queue' = Append(queue, [op |-> "Delete", keys |-> {n}])
        PROVE  \E m : /\ m \in Seq(Ordinary) /\ queue' = queue \o m /\ Announces(m)
                      /\ \A i \in 1..Len(m) : \E k \in K : m[i] = [op |-> "Delete", keys |-> {k}]
    <3> DEFINE e == [op |-> "Delete", keys |-> {n}]
    <3>1. e \in AnyEvent
      BY NewEvents
    <3>2. e \in Ordinary /\ e.op = "Delete"
      BY <3>1 DEF Ordinary
    <3>3. queue \in Seq(Ordinary)
      BY DEF SyncInv
    <3>4. queue' = queue \o <<e>> /\ <<e>> \in Seq(Ordinary) /\ Len(<<e>>) = 1 /\ <<e>>[1] = e
      <4> HIDE DEF e
      <4>1. queue' = Append(queue, e)
        BY <2>2 DEF e
      <4> QED
        BY <3>2, <3>3, <4>1, Appended
    <3>5. Announces(<<e>>)
      <4>1. <<e>>[1].op = "Delete"
        BY <3>2, <3>4
      <4>2. 2..Len(<<e>>) = {}
        BY <3>4
      <4>3. \A s : s[1].op = "Delete" /\ 2..Len(s) = {} => Announces(s)
        BY DEF Announces
      <4> HIDE DEF e
      <4> QED
        BY <4>1, <4>2, <4>3
    <3>6. \A i \in 1..Len(<<e>>) : <<e>>[i] = e
      <4> HIDE DEF e
      <4>1. 1..Len(<<e>>) = {1}
        BY <3>4
      <4> QED
        BY <3>4, <4>1
    <3> QED
      BY <3>4, <3>5, <3>6
  <2> QED
    BY <2>1, <2>2 DEF Reports
<1>2. m \in Seq(AnyEvent) /\ queue \in Seq(AnyEvent) /\ queue' \in Seq(AnyEvent)
  <2>1. m \in Seq(AnyEvent)
    BY <1>1 DEF Ordinary
  <2> QED
    BY <1>1, <2>1, HomeFacts, Queued
<1>3. UNCHANGED <<reading, reads, home, pref>>
  BY DEF Reports
<1>4. Shows' /\ queue' \in Seq(Ordinary) /\ Revealing(queue', home') /\ Stages'
  BY <1>1, <1>3, QueueGrows
<1>5. Noticed'
  BY DEF Reports, Noticed
<1>6. Held'
  BY DEF Reports, SyncInv, Held
<1>7. Reads'
  BY <1>3 DEF SyncInv, Reads
<1>8. \A i \in 1..Len(m) : m[i] \notin LoadEvents /\ \A k \in Names \ K : m[i] \notin Disturbing(k)
  <2> SUFFICES ASSUME NEW i \in 1..Len(m)
               PROVE  m[i] \notin LoadEvents /\ \A k \in Names \ K : m[i] \notin Disturbing(k)
    OBVIOUS
  <2>1. PICK n \in K : m[i] = [op |-> "Delete", keys |-> {n}]
    BY <1>1
  <2>2. m[i].op = "Delete" /\ m[i].keys = {n}
    BY <2>1
  <2> QED
    BY <2>2 DEF LoadEvents, Disturbing, Loads
<1>9. Synced'
  <2> SUFFICES ASSUME ~torn'
               PROVE  /\ ~OnItsWay' /\ PatchInv'
    BY DEF Synced, OnItsWay
  <2>1. ~torn /\ ~OnItsWay
    BY DEF Reports
  <2>2. ~OnItsWay'
    <3>1. NoneOf(queue, LoadEvents) /\ reading = Idle
      BY <1>2, <2>1, Ways DEF OnItsWay
    <3>2. NoneOf(m, LoadEvents)
      BY <1>8 DEF NoneOf
    <3>3. NoneOf(queue', LoadEvents)
      BY <1>1, <1>2, <3>1, <3>2, NoneQueued
    <3>4. ~\E i \in DOMAIN queue' : queue'[i].op \in Loads
      BY <1>2, <3>3, Ways
    <3> QED
      BY <1>3, <3>1, <3>4 DEF OnItsWay
  <2>3. PatchInv
    BY <2>1 DEF SyncInv, Synced, OnItsWay
  <2>4. ASSUME NEW k \in Names \ ToSet(pending')
        PROVE  /\ \A i \in 1..Len(m) : m[i] \in Disturbing(k) => m[i] \in Righting(k, Here(k)')
               /\ NoneOf(m, Disturbing(k)) => k \notin ToSet(pending) /\ Here(k)' = Here(k)
    <3>1. k \in Names \ K /\ k \notin ToSet(pending)
      BY <2>4 DEF Reports
    <3>2. disk'[k] = disk[k]
      BY <3>1 DEF Reports
    <3>3. Here(k)' = Here(k)
      BY <3>1, <3>2, HereKept
    <3> QED
      BY <1>8, <3>1, <3>3
  <2>5. PatchInv'
    BY <1>1, <1>2, <1>3, <1>8, <2>3, <2>4, PatchQueued
  <2> QED
    BY <2>2, <2>5
<1> QED
  BY <1>4, <1>5, <1>6, <1>7, <1>9 DEF SyncInv

(* Events that are no readings, and right for what is not pending, come to *)
(* the queue while the watcher has something to do.                        *)
LEMMA SyncQueued ==
  ASSUME TabInv, SyncInv, NEW m \in Seq(Ordinary), queue' = queue \o m, Announces(m),
         NoneOf(m, LoadEvents), UNCHANGED <<home, pref, disk, reading, reads, torn>>,
         permit # <<>> \/ pending # <<>>, Noticed', Held',
         \A k \in Names \ ToSet(pending') :
           /\ \A i \in 1..Len(m) : m[i] \in Disturbing(k) => m[i] \in Righting(k, Here(k))
           /\ NoneOf(m, Disturbing(k)) => k \notin ToSet(pending)
  PROVE  SyncInv'
<1>1. m \in Seq(AnyEvent) /\ queue \in Seq(AnyEvent) /\ queue' \in Seq(AnyEvent)
  <2>1. m \in Seq(AnyEvent)
    BY DEF Ordinary
  <2> QED
    BY <2>1, HomeFacts, Queued
<1>2. Shows' /\ queue' \in Seq(Ordinary) /\ Revealing(queue', home') /\ Stages'
  BY QueueGrows
<1>3. Reads'
  BY DEF SyncInv, Reads
<1>4. OnItsWay' <=> OnItsWay
  <2>1. NoneOf(queue', LoadEvents) <=> NoneOf(queue, LoadEvents)
    BY <1>1, NoneQueued
  <2>2. (\E i \in DOMAIN queue' : queue'[i].op \in Loads) <=> (\E i \in DOMAIN queue : queue[i].op \in Loads)
    BY <1>1, <2>1, Ways
  <2> QED
    BY <2>2 DEF OnItsWay
<1>5. Synced'
  <2> SUFFICES ASSUME ~torn
               PROVE  /\ ~(reads = 1 /\ OnItsWay)
                      /\ reads > 1 /\ reading # Idle => ReadInv'
                      /\ reading = Idle => PatchInv'
    BY <1>4 DEF Synced
  <2>1. ~(reads = 1 /\ OnItsWay)
    BY DEF SyncInv, Synced, StreamInv
  <2>2. ASSUME reads > 1, reading # Idle
        PROVE  ReadInv'
    <3>1. ReadInv
      BY <2>2 DEF SyncInv, Synced
    <3>2. Present' = Present
      BY DEF Present
    <3>3. OnDisk' = OnDisk
      BY <3>2 DEF OnDisk
    <3> QED
      BY <3>1, <3>2, <3>3 DEF ReadInv
  <2>3. ASSUME reading = Idle
        PROVE  PatchInv'
    <3>1. PatchInv
      BY <2>1, <2>3 DEF SyncInv, Synced
    <3>2. \A k \in Names : Here(k)' = Here(k)
      BY HereKept
    <3>3. \A i \in 1..Len(m) : m[i] \notin LoadEvents
      BY DEF NoneOf
    <3>4. \A k \in Names \ ToSet(pending') :
            /\ \A i \in 1..Len(m) : m[i] \in Disturbing(k) => m[i] \in Righting(k, Here(k)')
            /\ NoneOf(m, Disturbing(k)) => k \notin ToSet(pending) /\ Here(k)' = Here(k)
      BY <3>2
    <3> QED
      BY <1>1, <3>1, <3>3, <3>4, PatchQueued
  <2> QED
    BY <2>1, <2>2, <2>3
<1> QED
  BY <1>2, <1>3, <1>5 DEF SyncInv

(* The watcher reports. *)
LEMMA SyncWatch ==
  ASSUME TabInv, SyncInv, NEW k \in 1..Len(pending), Watch(k)
  PROVE  SyncInv'
<1>1. /\ ToSet(pending') \subseteq ToSet(pending)
      /\ UNCHANGED <<home, pref, disk, reading, reads, torn>> /\ permit = <<>> /\ permit' = <<>>
  BY WatchBrings DEF Watch, load
<1>2. PICK m \in Seq(Timely) :
        /\ queue' = queue \o m
        /\ Home \in ToSet(pending) => Home \in ToSet(pending') \/ \E i \in 1..Len(m) : m[i].op = "Self"
        /\ \A n \in Names \ ToSet(pending') :
             NoneOf(m, Disturbing(n)) => n \notin ToSet(pending)
  BY WatchBrings
<1>3. Timely \subseteq Ordinary
  BY TimelyRights
<1>4. m \in Seq(Ordinary) /\ \A i \in 1..Len(m) : m[i] \in Timely
  BY <1>3
<1>5. Announces(m) /\ NoneOf(m, LoadEvents)
  <2>1. \A i \in 1..Len(m) : m[i] \notin LoadEvents /\ m[i].op # "Reveal"
    BY <1>4, TimelyRights
  <2>2. m # <<>> => 1 \in 1..Len(m)
    BY <1>4, Taken
  <2>3. \A i \in 2..Len(m) : i \in 1..Len(m)
    BY <1>4
  <2> QED
    BY <2>1, <2>2, <2>3 DEF Announces, NoneOf
<1>6. pending # <<>>
  OBVIOUS
<1>7. /\ (\E i \in 1..Len(queue) : queue[i].op = "Self") => \E i \in 1..Len(queue') : queue'[i].op = "Self"
      /\ (\E i \in 1..Len(m) : m[i].op = "Self") => \E i \in 1..Len(queue') : queue'[i].op = "Self"
  BY <1>1, <1>2, <1>4, <1>5, QueueGrows
<1>8. Noticed'
  BY <1>1, <1>2, <1>7 DEF SyncInv, Noticed
<1>9. Held'
  BY <1>1 DEF Held
<1>10. \A n \in Names : \A i \in 1..Len(m) : m[i] \in Disturbing(n) => m[i] \in Righting(n, Here(n))
  BY <1>4, TimelyRights
<1> QED
  BY <1>1, <1>2, <1>4, <1>5, <1>6, <1>8, <1>9, <1>10, SyncQueued

(* A renaming or a creation is announced. *)
LEMMA AnnounceBrings ==
  ASSUME TabInv, SyncInv, Announce
  PROVE  \E m \in Seq(Ordinary) :
           /\ queue' = queue \o m /\ Announces(m) /\ NoneOf(m, LoadEvents)
           /\ \A k \in Names \ ToSet(pending) : NoneOf(m, Disturbing(k))
<1> DEFINE old == permit[1]  new == permit[2]
<1>1. old \in Names /\ new \in Names /\ old \in ToSet(pending) /\ new \in ToSet(pending)
  BY DEF TabInv, DataOK, SyncInv, Held, Announce
<1>2. queue \in Seq(Ordinary)
  BY DEF SyncInv
<1>3. CASE disk[new] = Absent
  <2>1. queue' = queue
    BY <1>3 DEF Announce
  <2>2. <<>> \in Seq(Ordinary) /\ queue \o <<>> = queue
    BY <1>2
  <2>3. 1..Len(<<>>) = {} /\ 2..Len(<<>>) = {}
    OBVIOUS
  <2>4. Announces(<<>>) /\ \A D : NoneOf(<<>>, D)
    BY <2>3 DEF Announces, NoneOf
  <2> QED
    BY <2>1, <2>2, <2>4
<1>4. CASE disk[new] # Absent
  <2> DEFINE files == [k \in {old} |-> File(new, disk[new])]
             u == [op |-> "Upsert", files |-> files]
             r == [op |-> "Reveal", key |-> new]
             m == <<u, r>>
  <2>1. queue' = queue \o m
    BY <1>4 DEF Announce
  <2>2. File(new, disk[new]) \in Files /\ File(new, disk[new]).key = new
    <3>1. disk[new] \in {Absent} \cup 1..MaxChanges + 1
      BY <1>1 DEF TabInv, DataOK
    <3>2. MaxChanges \in Nat
      BY TabAssumption
    <3>3. disk[new] \in Nat
      BY <1>4, <3>1, <3>2
    <3> QED
      BY <1>1, <3>3 DEF File, Files
  <2>3. /\ {old} \in SUBSET Names /\ files \in [{old} -> Files] /\ DOMAIN files = {old}
        /\ files[old].key = new
    BY <1>1, <2>2
  <2>4. Distinct(files) /\ \A k : Touches(files, k) => k \in {old, new}
    <3> HIDE DEF files
    <3> QED
      BY <2>3 DEF Distinct, Touches
  <2> HIDE DEF files
  <2>5. u \in AnyEvent /\ r \in AnyEvent
    BY <1>1, <2>3, NewEvents
  <2>6. u.op = "Upsert" /\ u.files = files /\ r.op = "Reveal" /\ r.key = new
    OBVIOUS
  <2> HIDE DEF u, r
  <2>7. u \in Ordinary /\ r \in Ordinary
    BY <2>4, <2>5, <2>6 DEF Ordinary
  <2>8. m \in Seq(Ordinary) /\ Len(m) = 2 /\ m[1] = u /\ m[2] = r
    BY <2>7
  <2> HIDE DEF m
  <2>9. 1..Len(m) = {1, 2} /\ 2..Len(m) = {2}
    BY <2>8
  <2>10. Announces(m)
    <3>1. m[1].op # "Reveal"
      BY <2>6, <2>8
    <3>2. m[2 - 1].op = "Upsert" /\ old \in DOMAIN m[2 - 1].files /\ m[2 - 1].files[old].key = m[2].key
      BY <2>3, <2>6, <2>8
    <3> QED
      BY <2>9, <3>1, <3>2 DEF Announces
  <2>11. NoneOf(m, LoadEvents)
    BY <2>6, <2>8, <2>9 DEF NoneOf, LoadEvents, Loads
  <2>12. \A k \in Names \ ToSet(pending) : NoneOf(m, Disturbing(k))
    <3> SUFFICES ASSUME NEW k \in Names \ ToSet(pending)
                 PROVE  u \notin Disturbing(k) /\ r \notin Disturbing(k)
      BY <2>8, <2>9 DEF NoneOf
    <3>1. ~Touches(files, k)
      BY <1>1, <2>4
    <3> QED
      BY <2>6, <3>1 DEF Disturbing, Loads
  <2> QED
    BY <2>1, <2>8, <2>10, <2>11, <2>12
<1> QED
  BY <1>3, <1>4

(* It keeps the invariant. *)
LEMMA SyncAnnounce ==
  ASSUME TabInv, SyncInv, Announce
  PROVE  SyncInv'
<1>1. /\ UNCHANGED <<home, pref, disk, reading, reads, torn, pending>>
      /\ permit # <<>> /\ permit' = <<>>
  BY DEF Announce, load
<1>2. PICK m \in Seq(Ordinary) :
           /\ queue' = queue \o m /\ Announces(m) /\ NoneOf(m, LoadEvents)
           /\ \A k \in Names \ ToSet(pending) : NoneOf(m, Disturbing(k))
  BY AnnounceBrings
<1>3. (\E i \in 1..Len(queue) : queue[i].op = "Self") => \E i \in 1..Len(queue') : queue'[i].op = "Self"
  BY <1>1, <1>2, QueueGrows
<1>4. Noticed'
  BY <1>1, <1>3 DEF SyncInv, Noticed
<1>5. Held'
  BY <1>1 DEF Held
<1>6. \A k \in Names \ ToSet(pending') :
           /\ \A i \in 1..Len(m) : m[i] \in Disturbing(k) => m[i] \in Righting(k, Here(k))
           /\ NoneOf(m, Disturbing(k)) => k \notin ToSet(pending)
  BY <1>1, <1>2 DEF NoneOf
<1> QED
  BY <1>1, <1>2, <1>4, <1>5, <1>6, SyncQueued

(* The refresher queues at most one event, which reveals nothing. *)
LEMMA QueuesOne ==
  ASSUME TabInv, TabInv', SyncInv, NEW e, queue' = Append(queue, e),
         e.op # "Reveal", e.op # "Upsert", e.op \in {"Part", "Done"} => e.ticket = 1
  PROVE  \E m \in Seq(Ordinary) :
           queue' = queue \o m /\ Announces(m) /\ \E i \in 1..Len(m) : m[i] = e
<1>1. queue \in Seq(AnyEvent) /\ queue' \in Seq(AnyEvent) /\ queue \in Seq(Ordinary)
  BY HomeFacts DEF SyncInv, TabInv, DataOK
<1>2. e \in AnyEvent
  <2>1. Len(queue) \in Nat /\ Len(queue') = Len(queue) + 1 /\ queue'[Len(queue) + 1] = e
    BY <1>1
  <2>2. Len(queue) + 1 \in 1..Len(queue')
    BY <2>1
  <2> QED
    BY <1>1, <2>1, <2>2
<1>3. e \in Ordinary
  BY <1>2 DEF Ordinary
<1>4. queue' = queue \o <<e>> /\ <<e>> \in Seq(Ordinary) /\ Len(<<e>>) = 1 /\ <<e>>[1] = e
  BY <1>1, <1>3, Appended
<1>5. 2..Len(<<e>>) = {} /\ 1 \in 1..Len(<<e>>)
  BY <1>4
<1>6. \A s : s[1].op # "Reveal" /\ 2..Len(s) = {} => Announces(s)
  BY DEF Announces
<1>7. Announces(<<e>>)
  BY <1>4, <1>5, <1>6
<1> QED
  BY <1>4, <1>5, <1>7

(* Or it queues none. *)
LEMMA QueuesNone ==
  ASSUME SyncInv, queue' = queue
  PROVE  \E m \in Seq(Ordinary) : queue' = queue \o m /\ Announces(m)
<1>1. <<>> \in Seq(Ordinary) /\ queue \o <<>> = queue
  BY DEF SyncInv
<1>2. 2..Len(<<>>) = {}
  OBVIOUS
<1>3. Announces(<<>>)
  BY <1>2 DEF Announces
<1> QED
  BY <1>1, <1>3

(* The rest of the invariant is not about the reading. *)
LEMMA SyncLoads ==
  ASSUME TabInv, SyncInv, NEW m \in Seq(Ordinary), queue' = queue \o m, Announces(m),
         UNCHANGED <<home, pref, pending, permit, reads, torn>>,
         reading' # Idle \/ \E i \in 1..Len(m) : m[i].op \in {"Full", "Done"},
         Reads', Synced'
  PROVE  SyncInv'
<1>1. /\ Shows' /\ queue' \in Seq(Ordinary) /\ Revealing(queue', home') /\ Stages'
      /\ (\E i \in 1..Len(queue) : queue[i].op = "Self") => \E i \in 1..Len(queue') : queue'[i].op = "Self"
  BY QueueGrows
<1>2. Noticed'
  BY <1>1 DEF SyncInv, Noticed
<1>3. Held'
  BY DEF SyncInv, Held
<1> QED
  BY <1>1, <1>2, <1>3 DEF SyncInv

(* A part is read, *)
LEMMA SyncRead ==
  ASSUME TabInv, TabInv', SyncInv, reading # Idle, NEW k \in 1..Len(reading.left), Read(k)
  PROVE  SyncInv'
<1>1. /\ reading'.stream = reading.stream /\ reading'.ticket = reading.ticket /\ reading' # Idle
      /\ queue' = IF reading.stream
                  THEN Append(queue, [op |-> "Part", files |-> Portion(k), ticket |-> reading.ticket])
                  ELSE queue
      /\ UNCHANGED <<home, pref, pending, permit, reads, torn>>
  BY ReadDoes DEF world
<1>2. Reads /\ Stages /\ Synced
  BY DEF SyncInv
<1>3. \E m \in Seq(Ordinary) : queue' = queue \o m /\ Announces(m)
  <2>1. CASE reading.stream
    <3> DEFINE e == [op |-> "Part", files |-> Portion(k), ticket |-> reading.ticket]
    <3>1. queue' = Append(queue, e)
      BY <1>1, <2>1
    <3>2. e.op = "Part" /\ e.ticket = 1
      BY <1>2, <2>1 DEF Reads
    <3> HIDE DEF e
    <3> QED
      BY <3>1, <3>2, QueuesOne
  <2>2. CASE ~reading.stream
    <3>1. queue' = queue
      BY <1>1, <2>2
    <3> QED
      BY <3>1, QueuesNone
  <2> QED
    BY <2>1, <2>2
<1>4. Reads'
  BY <1>1, <1>2 DEF Reads
<1>5. Synced'
  <2> SUFFICES ASSUME ~torn
               PROVE  /\ reads = 1 => StreamInv'
                      /\ reads > 1 => ReadInv'
    BY <1>1 DEF Synced
  <2>1. ASSUME reads = 1
        PROVE  StreamInv'
    <3>1. reading.stream /\ reading.ticket = 1 /\ StreamInv
      BY <1>2, <2>1 DEF Reads, Synced, OnItsWay
    <3> QED
      BY <1>2, <3>1, StreamReads
  <2>2. ASSUME reads > 1
        PROVE  ReadInv'
    <3>1. reads # 1
      BY <2>2
    <3>2. ~reading.stream /\ ReadInv
      BY <1>2, <2>2, <3>1 DEF Reads, Synced
    <3> QED
      BY <3>2, ReadGoesOn
  <2> QED
    BY <2>1, <2>2
<1> QED
  BY <1>1, <1>3, <1>4, <1>5, SyncLoads

(* and the last of it is. *)
LEMMA SyncEndRead ==
  ASSUME TabInv, TabInv', SyncInv, EndRead
  PROVE  SyncInv'
<1> DEFINE e == IF reading.stream THEN [op |-> "Done", ticket |-> reading.ticket]
                                  ELSE [op |-> "Full", files |-> reading.got]
<1>1. /\ reading # Idle /\ reading' = Idle /\ queue' = Append(queue, e)
      /\ UNCHANGED <<home, pref, pending, permit, reads, torn>>
  BY DEF EndRead, world
<1>2. Reads /\ Stages /\ Synced
  BY DEF SyncInv
<1>3. e.op \in {"Full", "Done"} /\ (e.op \in {"Part", "Done"} => e.ticket = 1)
  BY <1>1, <1>2 DEF Reads
<1> HIDE DEF e
<1>4. PICK m \in Seq(Ordinary) : queue' = queue \o m /\ Announces(m) /\ \E i \in 1..Len(m) : m[i] = e
  BY <1>1, <1>3, QueuesOne
<1>5. Reads'
  BY <1>1, <1>2 DEF Reads
<1>6. OnItsWay'
  <2>1. queue \in Seq(AnyEvent)
    BY HomeFacts
  <2>2. Len(queue) + 1 \in DOMAIN queue' /\ queue'[Len(queue) + 1] = e
    BY <1>1, <2>1
  <2> QED
    BY <1>3, <2>2 DEF OnItsWay, Loads
<1>7. Synced'
  <2> SUFFICES ASSUME ~torn
               PROVE  /\ reads = 1 => StreamInv'
                      /\ reads # 1 => PatchInv'
    BY <1>1, <1>6 DEF Synced
  <2>1. ASSUME reads = 1
        PROVE  StreamInv'
    <3>1. reading.stream /\ StreamInv
      BY <1>1, <1>2, <2>1 DEF Reads, Synced, OnItsWay
    <3> QED
      BY <1>1, <3>1, StreamEnds
  <2>2. ASSUME reads # 1
        PROVE  PatchInv'
    <3>1. reads > 1
      BY <1>2, <2>2, HomeFacts DEF Reads
    <3>2. ~reading.stream /\ ReadInv
      BY <1>1, <1>2, <2>2, <3>1 DEF Reads, Synced
    <3> QED
      BY <1>1, <3>2, ReadEnds
  <2> QED
    BY <2>1, <2>2
<1> QED
  BY <1>1, <1>3, <1>4, <1>5, <1>7, SyncLoads, SMTT(60)

(* An event has been handled, with f as the outcome. *)
Handled(f) ==
  /\ queue # <<>> /\ queue' = Tail(queue) /\ UNCHANGED <<world, pref>>
  /\ Handles(Head(queue), f) /\ Streams(Head(queue), home')
  /\ Parted(home') /\ Tidy(home') /\ AsPreferred(home', pref)
  /\ home'.stage = f.stage /\ home'.ticket = f.ticket
  /\ Listing(home') = Listing(f) /\ AllKeys(home') = AllKeys(f)
  /\ Unique(f) => Unique(home')
  /\ \/ home'.stale = f.stale /\ UNCHANGED <<reads, reading, torn>>
     \/ Asks(f)

(* Whatever the application delivers is handled so. *)
LEMMA DeliverHandles ==
  ASSUME TabInv, SyncInv, Deliver
  PROVE  \E f : Handled(f)
<1>1. /\ queue # <<>> /\ queue' = Tail(queue) /\ UNCHANGED <<world, pref>>
      /\ \E f : Handles(Head(queue), f) /\ Streams(Head(queue), f) /\ Lands(f)
  BY Delivered DEF SyncInv
<1>2. PICK f : Handles(Head(queue), f) /\ Streams(Head(queue), f) /\ Lands(f)
  BY <1>1
<1>3. f \in Folder /\ Parted(f) /\ Tidy(f) /\ AsPreferred(f, pref)
  BY <1>2 DEF Handles
<1>4. /\ Parted(home') /\ Tidy(home') /\ AsPreferred(home', pref)
      /\ home'.stage = f.stage /\ home'.ticket = f.ticket
      /\ Listing(home') = Listing(f) /\ AllKeys(home') = AllKeys(f)
      /\ Unique(f) => Unique(home')
      /\ \/ home'.stale = f.stale /\ UNCHANGED <<reads, reading, torn>>
         \/ Asks(f)
  BY <1>2, <1>3, Landed
<1>5. Streams(Head(queue), home')
  BY <1>2, <1>4 DEF Streams
<1> QED
  BY <1>1, <1>2, <1>4, <1>5 DEF Handled

(* The queue goes on behind what is handled. *)
LEMMA RestOfQueue ==
  ASSUME NEW S, NEW q \in Seq(S), q # <<>>
  PROVE  /\ \A i \in 1..Len(q) : i = 1 \/ \E j \in 1..Len(Tail(q)) : Tail(q)[j] = q[i]
         /\ \A j \in 1..Len(Tail(q)) : \E i \in 2..Len(q) : Tail(q)[j] = q[i]
         /\ Head(q) = q[1] /\ 1 \in 1..Len(q)
<1> DEFINE t == Tail(q)
<1>1. /\ t \in Seq(S) /\ Len(t) = Len(q) - 1 /\ Len(q) \in Nat \ {0}
      /\ \A i \in 1..Len(q)-1 : t[i] = q[i + 1]
      /\ Head(q) = q[1] /\ 1 \in 1..Len(q)
  BY Taken
<1> HIDE DEF t
<1>2. ASSUME NEW i \in 1..Len(q), i # 1
      PROVE  \E j \in 1..Len(t) : t[j] = q[i]
  <2>1. i - 1 \in 1..Len(t) /\ i - 1 \in 1..Len(q)-1 /\ (i - 1) + 1 = i
    BY <1>1, <1>2
  <2>2. t[i - 1] = q[(i - 1) + 1]
    BY <1>1, <2>1
  <2> QED
    BY <2>1, <2>2
<1>3. ASSUME NEW j \in 1..Len(t)
      PROVE  \E i \in 2..Len(q) : t[j] = q[i]
  <2>1. j \in 1..Len(q)-1 /\ j + 1 \in 2..Len(q)
    BY <1>1
  <2> QED
    BY <1>1, <2>1
<1> QED
  BY <1>1, <1>2, <1>3 DEF t

(* What the stage of the folder says remains true, *)
LEMMA StagesHandled ==
  ASSUME TabInv, SyncInv, NEW f, Handled(f)
  PROVE  Stages'
<1> DEFINE e == Head(queue)
<1>1. /\ Stages /\ queue # <<>> /\ queue' = Tail(queue) /\ queue \in Seq(AnyEvent)
      /\ home.stage \in {"Loading", "Loaded"} /\ home.ticket \in Nat
  BY HomeFacts DEF SyncInv, Handled
<1>2. /\ e.op \notin Loads => f.stage = home.stage /\ f.ticket = home.ticket
      /\ e.op = "Full" => f.stage = "Loaded" /\ f.ticket >= 1
      /\ e.op = "Part" =>
           /\ f.stage = home.stage
           /\ f.ticket = IF e.files = <<>> /\ home.stage = "Loading" THEN 1 ELSE home.ticket
      /\ e.op = "Done" =>
           /\ f.ticket = home.ticket
           /\ f.stage = IF home.ticket = 1 THEN "Loaded" ELSE home.stage
  BY DEF Handled, Handles
<1>3. home'.stage = f.stage /\ home'.ticket = f.ticket
  BY DEF Handled
<1>4. home.ticket = 0 => e.op = "Part" /\ e.files = <<>> /\ home.stage = "Loading"
  BY <1>1 DEF Stages
<1>5. /\ home.stage = "Loaded" => home.ticket >= 1
      /\ home.stage = "Loading" => home.ticket \in {0, 1}
  BY <1>1 DEF Stages
<1> HIDE DEF e
<1>6. /\ home'.ticket # 0
      /\ home'.stage = "Loaded" => home'.ticket >= 1
      /\ home'.stage = "Loading" => home'.ticket \in {0, 1}
  BY <1>1, <1>2, <1>3, <1>4, <1>5 DEF Loads
<1>7. home'.stage = "Loading" => home.stage = "Loading" /\ e.op \notin {"Full", "Done"}
  BY <1>1, <1>2, <1>3, <1>4, <1>5 DEF Loads
<1>8. ASSUME home'.stage = "Loading"
      PROVE  reading' # Idle \/ \E i \in 1..Len(queue') : queue'[i].op \in {"Full", "Done"}
  <2>1. reading # Idle \/ \E i \in 1..Len(queue) : queue[i].op \in {"Full", "Done"}
    BY <1>1, <1>7, <1>8 DEF Stages
  <2>2. CASE reading # Idle
    <3>1. reading' = reading \/ reading' = Begin(issued + 1, FALSE)
      BY DEF Handled, Asks
    <3> QED
      <4>1. Begin(issued + 1, FALSE) # Idle
        BY Opened
      <4> QED
        BY <2>2, <3>1, <4>1
  <2>3. CASE \E i \in 1..Len(queue) : queue[i].op \in {"Full", "Done"}
    <3>1. PICK i \in 1..Len(queue) : queue[i].op \in {"Full", "Done"}
      BY <2>3
    <3>2. i # 1
      BY <1>1, <1>7, <1>8, <3>1, RestOfQueue DEF e
    <3>3. \E j \in 1..Len(queue') : queue'[j] = queue[i]
      BY <1>1, <3>2, RestOfQueue
    <3> QED
      BY <3>1, <3>3
  <2> QED
    BY <2>1, <2>2, <2>3
<1> QED
  BY <1>6, <1>8 DEF Stages

(* and so does that a torn reading will be noticed. *)
LEMMA NoticedHandled ==
  ASSUME TabInv, SyncInv, NEW f, Handled(f)
  PROVE  Noticed'
<1> DEFINE e == Head(queue)
<1>1. /\ Noticed /\ queue # <<>> /\ queue' = Tail(queue) /\ queue \in Seq(AnyEvent)
      /\ pending' = pending
  BY HomeFacts DEF SyncInv, Handled, world
<1>2. e = queue[1]
  BY <1>1, RestOfQueue
<1>3. IF e.op = "Self" THEN f.stale ELSE f.stale = home.stale
  BY DEF Handled, Handles
<1>4. (home'.stale = f.stale /\ torn' = torn) \/ ~torn'
  BY DEF Handled, Asks
<1> HIDE DEF e
<1>5. \A i \in 1..Len(queue) : queue[i].op = "Self" /\ e.op # "Self" =>
         \E j \in 1..Len(queue') : queue'[j].op = "Self"
  <2> SUFFICES ASSUME NEW i \in 1..Len(queue), queue[i].op = "Self", e.op # "Self"
               PROVE  \E j \in 1..Len(queue') : queue'[j].op = "Self"
    OBVIOUS
  <2>1. i # 1
    BY <1>2
  <2>2. \E j \in 1..Len(queue') : queue'[j] = queue[i]
    BY <1>1, <2>1, RestOfQueue
  <2> QED
    BY <2>2
<1> QED
  BY <1>1, <1>3, <1>4, <1>5 DEF Noticed

(* The request opens the directory as it is. *)
LEMMA AskReads ==
  ASSUME TabInv, NEW f, Asks(f), disk' = disk
  PROVE  ReadInv' /\ reading' # Idle /\ ~reading'.stream
<1> DEFINE r == Begin(issued + 1, FALSE)
<1>1. reading' = r
  BY DEF Asks
<1>2. /\ r # Idle /\ ~r.stream /\ r.got = <<>>
      /\ ToSet(r.left) = Present /\ IsInjective(r.left)
  BY Opened
<1> HIDE DEF r
<1>3. Present' = Present
  BY DEF Present
<1>4. OnDisk' = {File(n, disk[n]) : n \in Present}
  BY <1>3 DEF OnDisk
<1>5. ToSet(<<>>) = {} /\ Keys(<<>>) = {} /\ Single(<<>>)
  BY DEF ToSet, Keys, Single
<1> QED
  BY <1>1, <1>2, <1>3, <1>4, <1>5 DEF ReadInv

(* The first reading comes to the listing, *)
LEMMA StreamHandled ==
  ASSUME TabInv, TabInv', SyncInv, NEW f, Handled(f), UNCHANGED <<reads, reading, torn>>,
         home'.stale = f.stale, ~torn, reads = 1, OnItsWay
  PROVE  IF OnItsWay' THEN StreamInv' ELSE PatchInv'
<1> DEFINE e == Head(queue)
<1>1. /\ queue # <<>> /\ queue' = Tail(queue) /\ queue \in Seq(AnyEvent)
      /\ UNCHANGED <<disk, pending, permit>> /\ Stages /\ Streams(e, home')
      /\ home' \in Folder
  BY HomeFacts DEF SyncInv, Handled, world, TabInv, HomeOK
<1>2. StreamInv
  BY DEF SyncInv, Synced
<1>3. e = queue[1] /\ 1 \in 1..Len(queue)
  BY <1>1, RestOfQueue
<1>4. e.op = IF reading = Idle /\ 1 = Len(queue) THEN "Done" ELSE "Part"
  BY <1>2, <1>3 DEF StreamInv
<1>5. /\ IF e.op = "Self" THEN f.stale ELSE f.stale = home.stale
      /\ e.op = "Part" =>
           /\ f.stage = home.stage
           /\ f.ticket = IF e.files = <<>> /\ home.stage = "Loading" THEN 1 ELSE home.ticket
      /\ home'.stage = f.stage /\ home'.ticket = f.ticket
  BY DEF Handled, Handles
<1> HIDE DEF e
<1>6. CASE e.op = "Part"
  <2>1. OnItsWay'
    <3>1. CASE reading # Idle
      BY <3>1 DEF OnItsWay
    <3>2. CASE reading = Idle
      <4>1. Len(queue) \in Nat /\ Len(queue) # 1 /\ Len(queue) \in 1..Len(queue)
        BY <1>1, <1>3, <1>4, <1>6, <3>2
      <4>2. queue[Len(queue)].op = "Done"
        BY <1>2, <3>2, <4>1 DEF StreamInv
      <4>3. PICK j \in 1..Len(queue') : queue'[j] = queue[Len(queue)]
        BY <1>1, <4>1, RestOfQueue
      <4>4. j \in DOMAIN queue'
        <5>1. queue' \in Seq(AnyEvent)
          BY <1>1, Taken
        <5> QED
          BY <4>3, <5>1
      <4> QED
        BY <4>2, <4>3, <4>4 DEF OnItsWay, Loads
    <3> QED
      BY <3>1, <3>2
  <2>2. home.stage = "Loading" /\ ~home.stale
    BY <1>2 DEF StreamInv
  <2>3. /\ ~home'.stale /\ home'.stage = "Loading"
        /\ home'.ticket = IF e.files = <<>> THEN 1 ELSE home.ticket
    BY <1>5, <1>6, <2>2
  <2>4. StreamInv'
    BY <1>1, <1>2, <1>6, <2>3, StreamTaken DEF e
  <2> QED
    BY <2>1, <2>4
<1>7. CASE e.op = "Done"
  <2>1. reading = Idle /\ Len(queue) = 1
    BY <1>4, <1>7
  <2>2. ~OnItsWay'
    <3>1. Len(queue') = 0 /\ queue' \in Seq(AnyEvent)
      BY <1>1, <2>1, Taken
    <3>2. DOMAIN queue' = {}
      BY <3>1
    <3> QED
      BY <2>1, <3>2 DEF OnItsWay
  <2>3. PatchInv'
    BY <1>1, <1>2, <1>7, StreamDone DEF e
  <2> QED
    BY <2>2, <2>3
<1> QED
  BY <1>4, <1>6, <1>7

(* and so does everything else. *)
LEMMA SyncedHandled ==
  ASSUME TabInv, TabInv', SyncInv, NEW f, Handled(f)
  PROVE  Synced'
<1>1. /\ queue # <<>> /\ queue' = Tail(queue) /\ queue \in Seq(AnyEvent)
      /\ UNCHANGED <<disk, pending, permit>> /\ Synced /\ Reads /\ reads \in Nat
      /\ Brings(Head(queue), home, f) /\ Listing(home') = Listing(f)
      /\ Unique(f) => Unique(home')
  BY HomeFacts DEF SyncInv, Handled, Handles, world
<1> SUFFICES ASSUME ~torn'
             PROVE  /\ reads' = 1 /\ OnItsWay' => StreamInv'
                    /\ reads' > 1 /\ reading' # Idle => ReadInv'
                    /\ reading' = Idle /\ ~(reads' = 1 /\ OnItsWay') => PatchInv'
  BY DEF Synced
<1>2. CASE Asks(f)
  <2>1. ReadInv' /\ reading' # Idle
    BY <1>1, <1>2, AskReads
  <2>2. reads' # 1
    BY <1>1, <1>2 DEF Asks, Reads
  <2> QED
    BY <2>1, <2>2
<1>3. CASE home'.stale = f.stale /\ UNCHANGED <<reads, reading, torn>>
  <2>1. OnItsWay' => OnItsWay
    <3>1. queue' \in Seq(AnyEvent)
      BY <1>1, Taken
    <3>2. DOMAIN queue = 1..Len(queue) /\ DOMAIN queue' = 1..Len(queue')
      BY <1>1, <3>1
    <3>3. \A j \in 1..Len(queue') : \E i \in 2..Len(queue) : queue'[j] = queue[i]
      BY <1>1, RestOfQueue
    <3>4. \A j \in DOMAIN queue' : \E i \in DOMAIN queue : queue'[j] = queue[i]
      <4>1. 2..Len(queue) \subseteq 1..Len(queue)
        OBVIOUS
      <4> QED
        BY <3>2, <3>3, <4>1
    <3> QED
      BY <1>3, <3>4 DEF OnItsWay
  <2>2. CASE reads = 1 /\ OnItsWay
    <3>1. IF OnItsWay' THEN StreamInv' ELSE PatchInv'
      BY <1>3, <2>2, StreamHandled
    <3> QED
      BY <1>3, <2>2, <3>1
  <2>3. CASE ~(reads = 1 /\ OnItsWay)
    <3>1. ASSUME reads > 1, reading # Idle
          PROVE  ReadInv'
      <4>1. ReadInv
        BY <1>1, <1>3, <3>1 DEF Synced
      <4>2. Present' = Present
        BY <1>1 DEF Present
      <4>3. OnDisk' = OnDisk
        BY <1>1, <4>2 DEF OnDisk
      <4> QED
        BY <1>1, <1>3, <4>1, <4>2, <4>3 DEF ReadInv
    <3>2. ASSUME reading = Idle
          PROVE  PatchInv'
      <4>1. PatchInv
        BY <1>1, <1>3, <2>3, <3>2 DEF Synced
      <4> QED
        BY <1>1, <4>1, PatchTaken
    <3> QED
      BY <1>3, <2>1, <2>3, <3>1, <3>2
  <2> QED
    BY <2>2, <2>3
<1> QED
  BY <1>2, <1>3 DEF Handled

(* The application handles an event. *)
LEMMA SyncDeliver ==
  ASSUME TabInv, TabInv', SyncInv, Deliver
  PROVE  SyncInv'
<1>1. PICK f : Handled(f)
  BY DeliverHandles
<1>2. /\ queue # <<>> /\ queue' = Tail(queue) /\ queue \in Seq(Ordinary) /\ queue \in Seq(AnyEvent)
      /\ UNCHANGED <<disk, pending, permit, pref>> /\ Held /\ Reads /\ reads \in Nat
      /\ Revealing(queue, home)
  BY <1>1, HomeFacts DEF SyncInv, Handled, world
<1>3. Shows'
  BY <1>1 DEF Handled, Shows
<1>4. queue' \in Seq(Ordinary)
  BY <1>2, Taken
<1>5. Revealing(queue', home')
  <2>1. Head(queue).op = "Upsert" =>
          \A k \in DOMAIN Head(queue).files : Head(queue).files[k].key \in AllKeys(home')
    BY <1>1 DEF Handled, Handles
  <2> QED
    BY <1>2, <2>1, RevealingTaken
<1>6. Held'
  BY <1>2 DEF Held
<1>7. Reads'
  <2>1. CASE Asks(f)
    <3>1. reading' # Idle /\ ~reading'.stream
      BY <1>2, <2>1, AskReads
    <3>2. reads' >= 1 /\ reads' # 1
      BY <1>2, <2>1 DEF Asks, Reads
    <3> QED
      BY <3>1, <3>2 DEF Reads
  <2>2. CASE UNCHANGED <<reads, reading, torn>>
    BY <1>2, <2>2 DEF Reads
  <2> QED
    BY <1>1, <2>1, <2>2 DEF Handled
<1>8. Stages' /\ Noticed' /\ Synced'
  BY <1>1, StagesHandled, NoticedHandled, SyncedHandled
<1> QED
  BY <1>3, <1>4, <1>5, <1>6, <1>7, <1>8 DEF SyncInv

(* A request leaves the first reading behind. *)
LEMMA ReadsOn ==
  ASSUME TabInv, Reads, NEW f, UNCHANGED <<reads, reading, torn>> \/ Asks(f), disk' = disk
  PROVE  Reads'
<1>1. CASE Asks(f)
  <2>1. reading' # Idle /\ ~reading'.stream
    BY <1>1, AskReads
  <2>2. reads' >= 1 /\ reads' # 1
    BY <1>1, HomeFacts DEF Asks, Reads
  <2> QED
    BY <2>1, <2>2 DEF Reads
<1>2. CASE UNCHANGED <<reads, reading, torn>>
  BY <1>2 DEF Reads
<1> QED
  BY <1>1, <1>2

(* The tab keeps the files that it has; it may show them in another way. *)
LEMMA SyncKept ==
  ASSUME TabInv, SyncInv, Kept, UNCHANGED <<world, queue>>
  PROVE  SyncInv'
<1>1. PICK f : /\ Rearranges(home, f) /\ Lands(f)
               /\ AsPreferred(home, pref) => AsPreferred(f, pref')
  BY DEF Kept
<1>2. /\ home \in Folder /\ Parted(home) /\ Tidy(home) /\ AsPreferred(home, pref)
      /\ UNCHANGED <<disk, pending, permit, queue>>
      /\ Noticed /\ Held /\ queue \in Seq(Ordinary) /\ Revealing(queue, home) /\ Reads /\ Stages /\ Synced
  BY HomeFacts DEF SyncInv, Shows, world
<1>3. /\ f \in Folder /\ Parted(f) /\ Tidy(f) /\ AsPreferred(f, pref')
      /\ f.stale = home.stale /\ f.stage = home.stage /\ f.ticket = home.ticket
      /\ Listing(f) = Listing(home) /\ AllKeys(f) = AllKeys(home) /\ (Unique(home) => Unique(f))
  BY <1>1, <1>2, RearrangedHandled
<1>4. /\ Parted(home') /\ Tidy(home') /\ AsPreferred(home', pref')
      /\ home'.stage = home.stage /\ home'.ticket = home.ticket
      /\ Listing(home') = Listing(home) /\ AllKeys(home') = AllKeys(home)
      /\ Unique(home) => Unique(home')
      /\ \/ home'.stale = home.stale /\ UNCHANGED <<reads, reading, torn>>
         \/ Asks(f)
  BY <1>1, <1>3, Landed
<1>5. Shows' /\ Held' /\ queue' \in Seq(Ordinary) /\ Revealing(queue', home')
  BY <1>2, <1>4 DEF Shows, Held, Revealing
<1>6. Reads'
  BY <1>2, <1>4, ReadsOn
<1>7. Stages' /\ Noticed'
  <2>1. reading # Idle => reading' # Idle
    BY <1>2, <1>4, AskReads
  <2>2. Stages'
    BY <1>2, <1>4, <2>1 DEF Stages
  <2>3. (home'.stale = home.stale /\ torn' = torn) \/ ~torn'
    BY <1>4 DEF Asks
  <2> QED
    BY <1>2, <2>2, <2>3 DEF Noticed
<1>8. Synced'
  <2>1. CASE Asks(f)
    <3>1. ReadInv' /\ reading' # Idle
      BY <1>2, <2>1, AskReads
    <3>2. reads' # 1
      BY <1>2, <2>1, HomeFacts DEF Asks, Reads
    <3> QED
      BY <3>1, <3>2 DEF Synced
  <2>2. CASE home'.stale = home.stale /\ UNCHANGED <<reads, reading, torn>>
    <3>1. Present' = Present
      BY <1>2 DEF Present
    <3>2. OnDisk' = OnDisk /\ \A k \in Names : Here(k)' = Here(k)
      <4>1. OnDisk' = OnDisk
        BY <1>2, <3>1 DEF OnDisk
      <4>2. \A k \in Names : Here(k)' = Here(k)
        BY <1>2, HereKept
      <4> QED
        BY <4>1, <4>2
    <3>3. OnItsWay' = OnItsWay /\ Left' = Left
      BY <1>2, <2>2 DEF OnItsWay, Left
    <3>4. StreamInv => StreamInv'
      <4> SUFFICES ASSUME StreamInv PROVE StreamInv'
        OBVIOUS
      <4>1. UNCHANGED <<permit, pending, queue, reading>> /\ home'.stale = home.stale
        BY <1>2, <2>2
      <4>2. /\ permit' = <<>> /\ pending' = <<>> /\ ~home'.stale /\ home'.stage = "Loading"
            /\ \A i \in 1..Len(queue') : queue'[i].op = IF reading' = Idle /\ i = Len(queue') THEN "Done" ELSE "Part"
            /\ home'.ticket = 0 => Listing(home') = {}
            /\ \A i : IsPart(queue', i) /\ queue'[i].files = <<>> => i = 1 /\ home'.ticket = 0
            /\ Unique(home') /\ Listing(home') \subseteq OnDisk'
        BY <1>4, <3>2, <4>1 DEF StreamInv
      <4>3. /\ \A i : IsPart(queue', i) =>
                 /\ Single(queue'[i].files) /\ ToSet(queue'[i].files) \subseteq OnDisk'
                 /\ Keys(queue'[i].files) \cap (AllKeys(home') \cup Left') = {}
            /\ \A i, j : IsPart(queue', i) /\ IsPart(queue', j) /\ i # j =>
                 Keys(queue'[i].files) \cap Keys(queue'[j].files) = {}
        <5>1. /\ \A i : IsPart(queue, i) =>
                   /\ Single(queue[i].files) /\ ToSet(queue[i].files) \subseteq OnDisk
                   /\ Keys(queue[i].files) \cap (AllKeys(home) \cup Left) = {}
              /\ \A i, j : IsPart(queue, i) /\ IsPart(queue, j) /\ i # j =>
                   Keys(queue[i].files) \cap Keys(queue[j].files) = {}
          BY Zenon DEF StreamInv
        <5>2. /\ queue' = queue /\ OnDisk' = OnDisk /\ AllKeys(home') = AllKeys(home) /\ Left' = Left
          BY <1>4, <3>2, <3>3, <4>1
        <5> QED
          BY <5>1, <5>2
      <4>4. /\ Left' \subseteq Present' \ AllKeys(home')
            /\ reading' # Idle => IsInjective(reading'.left)
            /\ \A k \in Present' :
                 k \in AllKeys(home') \cup Left' \/ \E i : IsPart(queue', i) /\ k \in Keys(queue'[i].files)
        BY <1>4, <3>1, <3>3, <4>1 DEF StreamInv
      <4> QED
        BY <4>2, <4>3, <4>4, Zenon DEF StreamInv
    <3>5. ReadInv => ReadInv'
      BY <1>2, <2>2, <3>1, <3>2 DEF ReadInv
    <3>6. PatchInv => PatchInv'
      BY <1>2, <1>4, <3>2 DEF PatchInv, Reloads, Follows
    <3> QED
      BY <1>2, <2>2, <3>3, <3>4, <3>5, <3>6 DEF Synced
  <2> QED
    BY <1>4, <2>1, <2>2
<1> QED
  BY <1>5, <1>6, <1>7, <1>8 DEF SyncInv

(* The listing is in line with the disk at first, *)
LEMMA SyncInit ==
  ASSUME TabInv, Init
  PROVE  SyncInv
<1> DEFINE e == [op |-> "Part", files |-> <<>>, ticket |-> 1]
<1>1. pending = <<>> /\ permit = <<>> /\ queue = <<e>> /\ reads = 1 /\ ~torn
  BY DEF Init
<1>2. /\ reading # Idle /\ reading.stream /\ reading.ticket = 1
      /\ ToSet(reading.left) = Present /\ IsInjective(reading.left)
  <2>1. reading = Begin(1, TRUE)
    BY DEF Init
  <2> QED
    BY <2>1, Opened
<1>3. /\ e \in AnyEvent /\ e.op = "Part" /\ e.files = <<>> /\ e.ticket = 1
  <2>1. <<>> \in Seq(Files) /\ 1 \in Nat
    OBVIOUS
  <2> QED
    BY <2>1, NewEvents
<1> HIDE DEF e
<1>4. /\ home.items = <<>> /\ home.hidden = <<>> /\ home.ticket = 0 /\ ~home.unsorted
      /\ home.stage = "Loading" /\ ~home.stale
  BY DEF Init, Empty
<1>5. ToSet(<<>>) = {} /\ Keys(<<>>) = {} /\ Single(<<>>)
  BY DEF ToSet, Keys, Single
<1>6. Listing(home) = {} /\ AllKeys(home) = {} /\ Unique(home)
  BY <1>4, <1>5 DEF Listing, AllKeys, Unique
<1>7. Shows
  <2>1. Parted(home)
    BY <1>4, <1>5 DEF Parted
  <2>2. Sorted(home, <<>>) = <<>>
    <3>1. DOMAIN <<>> = {}
      OBVIOUS
    <3>3. Sorted(home, <<>>) = [n \in {} |-> Sorted(home, <<>>)[n]]
      BY <3>1 DEF Sorted
    <3>4. <<>> = [n \in {} |-> Sorted(home, <<>>)[n]]
      BY <3>1
    <3> QED
      BY <3>3, <3>4
  <2>3. Tidy(home) /\ AsPreferred(home, pref)
    BY <1>4, <2>2 DEF Tidy, AsPreferred
  <2> QED
    BY <2>1, <2>3 DEF Shows
<1>8. queue \in Seq(Ordinary) /\ Len(queue) = 1 /\ queue[1] = e /\ queue # <<>> /\ Head(queue) = e
  <2>1. e \in Ordinary
    BY <1>3 DEF Ordinary
  <2> QED
    BY <1>1, <2>1
<1>9. 1..Len(queue) = {1} /\ 2..Len(queue) = {}
  BY <1>8
<1>10. Noticed /\ Held /\ Revealing(queue, home) /\ Reads /\ Stages
  <2>1. Noticed /\ Held
    BY <1>1 DEF Noticed, Held
  <2>2. Revealing(queue, home)
    <3>1. Head(queue).op # "Reveal"
      BY <1>3, <1>8
    <3> QED
      BY <1>9, <3>1 DEF Revealing
  <2>3. Reads
    BY <1>1, <1>2 DEF Reads
  <2>4. Stages
    <3>1. Head(queue).op = "Part" /\ Head(queue).files = <<>>
      BY <1>3, <1>8
    <3> QED
      BY <1>2, <1>4, <1>8, <3>1 DEF Stages
  <2> QED
    BY <2>1, <2>2, <2>3, <2>4
<1>11. Left = Present
  BY <1>2 DEF Left
<1>12. \A i : IsPart(queue, i) => i = 1 /\ queue[i].files = <<>>
  BY <1>3, <1>8, <1>9 DEF IsPart
<1>13. StreamInv
  <2>1. /\ permit = <<>> /\ pending = <<>> /\ ~home.stale /\ home.stage = "Loading"
        /\ \A i \in 1..Len(queue) : queue[i].op = IF reading = Idle /\ i = Len(queue) THEN "Done" ELSE "Part"
        /\ home.ticket = 0 => Listing(home) = {}
        /\ \A i : IsPart(queue, i) /\ queue[i].files = <<>> => i = 1 /\ home.ticket = 0
        /\ Unique(home) /\ Listing(home) \subseteq OnDisk
    BY <1>1, <1>2, <1>3, <1>4, <1>6, <1>8, <1>9, <1>12
  <2>2. /\ \A i : IsPart(queue, i) =>
             /\ Single(queue[i].files) /\ ToSet(queue[i].files) \subseteq OnDisk
             /\ Keys(queue[i].files) \cap (AllKeys(home) \cup Left) = {}
        /\ \A i, j : IsPart(queue, i) /\ IsPart(queue, j) /\ i # j =>
             Keys(queue[i].files) \cap Keys(queue[j].files) = {}
    BY <1>5, <1>12
  <2>3. /\ Left \subseteq Present \ AllKeys(home)
        /\ reading # Idle => IsInjective(reading.left)
        /\ \A k \in Present :
             k \in AllKeys(home) \cup Left \/ \E i : IsPart(queue, i) /\ k \in Keys(queue[i].files)
    BY <1>2, <1>6, <1>11
  <2> QED
    BY <2>1, <2>2, <2>3, Zenon DEF StreamInv
<1>14. Synced
  <2>1. reads = 1 /\ ~(reads > 1) /\ reading # Idle
    BY <1>1, <1>2
  <2> QED
    BY <1>13, <2>1 DEF Synced
<1> QED
  BY <1>7, <1>8, <1>10, <1>14, SMTT(60) DEF SyncInv

(* and in every step. *)
LEMMA SyncStep ==
  ASSUME TabInv, SyncInv, [Next]_vars
  PROVE  SyncInv'
<1>1. TabInv'
  BY TabStep
<1>2. CASE Others \/ (\E n \in Names : CreateFile(n)) \/ (\E old, new \in Names : RenameFile(old, new))
  <2>1. PICK K \in SUBSET Names : Reports(K)
    BY <1>2, DiskReports
  <2> QED
    BY <2>1, SyncChanges
<1>3. CASE Announce
  BY <1>3, SyncAnnounce
<1>4. ASSUME NEW k \in 1..Len(pending), Watch(k)
      PROVE  SyncInv'
  BY <1>4, SyncWatch
<1>5. ASSUME reading # Idle, NEW k \in 1..Len(reading.left), Read(k)
      PROVE  SyncInv'
  BY <1>1, <1>5, SyncRead
<1>6. CASE EndRead
  BY <1>1, <1>6, SyncEndRead
<1>7. CASE Deliver
  BY <1>1, <1>7, SyncDeliver
<1>8. CASE User
  <2>1. HomeOK /\ StackInv
    BY DEF TabInv
  <2>2. Kept /\ UNCHANGED <<world, queue>>
    BY <1>8, <2>1, UserKeeps
  <2> QED
    BY <2>2, SyncKept
<1>9. CASE UNCHANGED vars
  <2>1. UNCHANGED <<world, queue, home, pref, reads, reading, torn>>
    BY <1>9 DEF vars, load
  <2>2. Rearranges(home, home)
    BY HomeFacts DEF Rearranges
  <2>3. Kept
    <3>1. Lands(home)
      BY <2>1 DEF Lands
    <3>2. AsPreferred(home, pref) => AsPreferred(home, pref')
      BY <2>1
    <3> QED
      BY <2>2, <3>1, <3>2 DEF Kept
  <2> QED
    BY <2>1, <2>3, SyncKept
<1> QED
  BY <1>2, <1>3, <1>4, <1>5, <1>6, <1>7, <1>8, <1>9 DEF Next

(* What is listed once, each in its list, is listed once. *)
LEMMA UniqueOnce ==
  ASSUME TabInv, Unique(home), Parted(home)
  PROVE  ListedOnce
<1>1. Keys(home.items) \cap Keys(home.hidden) = {}
  BY HomeFacts, ListingKeys
<1>2. \A s : Single(s) => IsInjective([i \in DOMAIN s |-> s[i].key])
  BY DEF Single, IsInjective
<1> QED
  BY <1>1, <1>2 DEF Unique, ListedOnce

(* When nothing is under way any more, the directory is what is listed, *)
LEMMA QuietListing ==
  ASSUME TabInv, SyncInv, Quiet, ~torn
  PROVE  Listing(home) = OnDisk
<1>1. PatchInv
  <2>1. DOMAIN queue = {}
    BY DEF Quiet
  <2> QED
    BY <2>1 DEF SyncInv, Synced, Quiet, OnItsWay
<1>2. ToSet(pending) = {} /\ \A D : NoneOf(queue, D)
  <2>1. DOMAIN pending = {} /\ 1..Len(queue) = {}
    BY DEF Quiet
  <2> QED
    BY <2>1 DEF ToSet, NoneOf
<1>3. \A k \in Names : At(Listing(home), k) = At(OnDisk, k)
  BY <1>1, <1>2 DEF PatchInv, Follows, Here
<1>4. \A x \in Listing(home) : x.key \in Names
  <2>1. Listing(home) \in SUBSET Files
    BY HomeFacts, ListingKeys
  <2> QED
    BY <2>1 DEF Files
<1>5. \A x \in OnDisk : x.key \in Names
  BY DEF OnDisk, Present, File
<1>6. \A L : \A x : x \in At(L, x.key) <=> x \in L
  BY DEF At
<1>7. ASSUME NEW x \in Listing(home) PROVE x \in OnDisk
  BY <1>3, <1>4, <1>6
<1>8. ASSUME NEW x \in OnDisk PROVE x \in Listing(home)
  BY <1>3, <1>5, <1>6
<1> QED
  BY <1>7, <1>8

(* in the right lists and in order. *)
LEMMA QuietExact ==
  ASSUME TabInv, SyncInv, Quiet, ~torn
  PROVE  Exact
<1>1. Listing(home) = OnDisk
  BY QuietListing
<1>2. ToSet(home.items) \cup ToSet(home.hidden) = {File(n, disk[n]) : n \in {n \in Names : disk[n] # Absent}}
  BY <1>1 DEF Listing, OnDisk, Present
<1>3. home.stage = "Loaded"
  <2>1. 1..Len(queue) = {} /\ reading = Idle
    BY DEF Quiet
  <2> QED
    BY <2>1, HomeFacts DEF SyncInv, Stages
<1>4. Parted(home) /\ Tidy(home) /\ AsPreferred(home, pref)
  BY DEF SyncInv, Shows
<1>5. home.items = Sorted(home, home.items) /\ home.show = pref.show /\ home.by = pref.by
  BY <1>3, <1>4 DEF Tidy, AsPreferred
<1>6. /\ \A n \in Keys(home.items) : Visible(home, n)
      /\ \A n \in Keys(home.hidden) : ~Visible(home, n)
  <2>1. /\ Keys(home.items) = {x.key : x \in ToSet(home.items)}
        /\ Keys(home.hidden) = {x.key : x \in ToSet(home.hidden)}
    BY HomeFacts, ListingKeys
  <2> QED
    BY <1>4, <2>1 DEF Parted
<1> QED
  BY <1>2, <1>5, <1>6 DEF Exact

(* The invariant is more than is claimed. *)
LEMMA SyncedInSync ==
  ASSUME TabInv, SyncInv
  PROVE  InSync
<1>1. ASSUME ~torn, ~OnItsWay
      PROVE  ListedOnce
  <2>1. PatchInv
    BY <1>1 DEF SyncInv, Synced, OnItsWay
  <2>2. NoneOf(queue, LoadEvents)
    BY <1>1, HomeFacts, Ways DEF OnItsWay
  <2>3. Unique(home) /\ Parted(home)
    BY <2>1, <2>2 DEF PatchInv, Reloads, SyncInv, Shows
  <2> QED
    BY <2>3, UniqueOnce
<1>2. ASSUME Quiet
      PROVE  (ListedOnce /\ Exact) \/ (torn /\ home.stale)
  <2>1. CASE torn
    <3>1. ToSet(pending) = {} /\ 1..Len(queue) = {}
      <4>1. DOMAIN pending = {} /\ 1..Len(queue) = {}
        BY <1>2 DEF Quiet
      <4> QED
        BY <4>1 DEF ToSet
    <3> QED
      BY <2>1, <3>1 DEF SyncInv, Noticed
  <2>2. CASE ~torn
    <3>1. ~OnItsWay
      <4>1. DOMAIN queue = {}
        BY <1>2 DEF Quiet
      <4> QED
        BY <1>2, <4>1 DEF Quiet, OnItsWay
    <3> QED
      BY <1>1, <1>2, <2>2, <3>1, QuietExact
  <2> QED
    BY <2>1, <2>2
<1> QED
  BY <1>1, <1>2 DEF InSync

(* The listing is in line with the disk: no file is listed twice but while *)
(* the directory is being read, and once nothing is under way, it is the   *)
(* directory's, or the folder is known to be stale.                        *)
THEOREM ListingInSync == Spec => []InSync
<1>1. Init => TabInv /\ SyncInv
  BY HomeInit, StackInit, SyncInit DEF TabInv
<1>2. TabInv /\ SyncInv /\ [Next]_vars => (TabInv /\ SyncInv)'
  BY TabStep, SyncStep
<1>3. TabInv /\ SyncInv => InSync
  BY SyncedInSync
<1> QED
  BY <1>1, <1>2, <1>3, PTL DEF Spec
=============================================================================
